---- MODULE Spec2Model ----
(***************************************************************************)
(* yapl: dependency acquisition, prefix initialization and launch          *)
(* orchestration (internal/dependency, internal/command, internal/app).    *)
(*                                                                         *)
(* The persistent state is the filesystem under the working root: the      *)
(* component cache directories, the container-runtime directory and the    *)
(* per-application prefix.  Every handler of the program is one action;    *)
(* the outcomes of the outside world (network, archive content, external   *)
(* commands, I/O errors) are inputs drawn with \E.                         *)
(*                                                                         *)
(* One application is followed.  Its configuration names one version per   *)
(* component kind, so each kind has one cache directory; what the registry *)
(* (runner.json) says about that version, and the optional fields of the   *)
(* application configuration, are re-read by every invocation and may      *)
(* differ from one invocation to the next.  The version it names for the   *)
(* compatibility layer is any name or the reserved name "system", for      *)
(* which InitializePrefix runs no bootstrap command in a 64-bit prefix.     *)
(*                                                                         *)
(* SpecDeps, SpecRuntime and SpecPrefix call the handlers of one component *)
(* in any order with any arguments; Spec follows App.Run and App.Setup     *)
(* from their first call to their return; SpecLaunch is one call of a      *)
(* launch strategy for a configuration, with the environment and the       *)
(* command line it builds; SpecRace is several invocations inside          *)
(* EnsureAll at the same time, ensure split at its file-system calls.      *)
(*                                                                         *)
(* The archive utility (internal/archive) is followed on a file system of  *)
(* paths, modes and contents: SpecExtract is one extraction of an archive  *)
(* of any content, SpecBundle the package and unpackage commands on an     *)
(* application directory and extractions of the bundles they write, or of  *)
(* a file of another kind found in the working directory.                  *)
(***************************************************************************)
EXTENDS Integers, Sequences, FiniteSets, TLC

\* Number of distinct BUILD_ID identifiers the remote server may publish.
MaxStamp == 2

\* The number of yapl commands followed from a fresh installation.
MaxRuns == 1

VARIABLES
    disk,     \* component kind -> content state of its cache directory
    rt,       \* dependencies/runtime/<version>: [dir, stamp, shim]
    prefix,   \* <apptype>/<name>/prefix: [root, pfx, inpfx]
    pc,       \* position of the running top-level command ("idle": none)
    cfg,      \* what the running command has read of its configuration
    runs,     \* number of top-level commands started
    last,     \* the most recent handler call: its arguments, result and effects
    fsys,     \* what the archive package reads and writes: [fs, bundles]
    inv       \* invocation -> where it stands in its ensure calls

vars == <<disk, rt, prefix, pc, cfg, runs, last, fsys, inv>>

\* The invocations of the tool that run at the same time on one cache root.
MaxInvocations == 3
Invocations == 1..MaxInvocations

-----------------------------------------------------------------------------
(* Directories *)

\* Content state of a component directory.  "partial" is a directory that
\* holds some but not all of the content of a finished extraction.
DirStates == {"absent", "empty", "partial", "full"}

DepKinds == {"umu-launcher", "dxvk", "vkd3d"}
CacheDirs == {"proton", "proton-win32"} \cup DepKinds

\* fs.DirExistsAndIsNotEmpty: the path opens, is a directory and has an entry.
DirNeverFound(d) == FALSE

DirExistsAndIsNotEmpty(d) == d \in {"partial", "full"}

-----------------------------------------------------------------------------
(* Archive engine, as seen by the resolver *)

\* What can happen to one Archive.Extract call with a non-empty source:
\*   "unreachable": open() fails (transport error, non-200, missing file)
\*   "badformat":   getDecompressedReader rejects the suffix or the stream
\*   "truncated":   extractTar fails after it has written some entries
\*   "done":        extractTar reaches io.EOF
ExtractOutcomes == {"unreachable", "badformat", "truncated", "done"}

\* Archive.Extract(destPath) with Source = source ("" or a URL), on a
\* destination in state d: the destination afterwards and the error.
Extract(source, d, o) ==
    IF source = "" THEN [dir |-> d, err |-> "emptysource"]
    ELSE IF o = "unreachable" THEN [dir |-> d, err |-> "open"]
    ELSE IF o = "badformat" THEN [dir |-> d, err |-> "format"]
    ELSE IF o = "truncated" THEN [dir |-> "partial", err |-> "tar"]
    ELSE [dir |-> "full", err |-> "nil"]

\* os.RemoveAll(path) on a directory in state d: a missing path is no error;
\* a failing removal has removed nothing ("denied") or a part ("halfway").
RemoveOutcomes == {"removed", "denied", "halfway"}

RemoveAll(d, rm) ==
    IF d = "absent" \/ rm = "removed" THEN [dir |-> "absent", err |-> "nil"]
    ELSE IF rm = "denied" \/ d = "empty" THEN [dir |-> d, err |-> "io"]
    ELSE [dir |-> "partial", err |-> "io"]

-----------------------------------------------------------------------------
(* Version registry (config.Global) *)

\* The result of looking a version up in one of the registry's maps: ok is
\* the map's "comma ok", the other fields are those of config.VersionInfo
\* that the resolver reads.
NoInfo == [ok |-> FALSE, URL |-> "", Path |-> "", CheckForUpdates |-> FALSE]

VersionInfo(url, path, check) ==
    [ok |-> TRUE, URL |-> url, Path |-> path, CheckForUpdates |-> check]

ProtonInfos ==
    {NoInfo} \cup {VersionInfo(u, p, FALSE) : u \in {"", "url"}, p \in {"", "path"}}

DepInfos == {NoInfo, VersionInfo("", "", FALSE), VersionInfo("url", "", FALSE)}

RuntimeInfos ==
    {NoInfo, VersionInfo("", "", FALSE)}
        \cup {VersionInfo("url", "", c) : c \in BOOLEAN}

\* A version string of the application configuration: not set, or the name
\* the application uses for that kind.
Versions == {"", "v"}

WineArchs == {"", "win32", "win64"}

-----------------------------------------------------------------------------
(* Dependency resolver: dxvk, vkd3d, umu-launcher *)

\* ensure fetching a named version whether its directory is there or not.
ensureRefetches(d, version, vinfo, o) ==
    IF version = "" THEN [dir |-> d, res |-> "ok", acts |-> <<>>]
    ELSE IF ~vinfo.ok THEN [dir |-> d, res |-> "config", acts |-> <<>>]
    ELSE LET x == Extract(vinfo.URL, d, o)
         IN  [dir  |-> x.dir,
              res  |-> IF x.err = "nil" THEN "ok" ELSE "acquire",
              acts |-> <<"extract">>]

\* ensure(name, version, globalCfg) on dependencies/<name>/<version> in
\* state d; vinfo is getInfo(name, version), o the outcome of the extraction
\* if one is started.
ensure(d, version, vinfo, o) ==
    IF version = "" THEN [dir |-> d, res |-> "ok", acts |-> <<>>]
    ELSE IF DirExistsAndIsNotEmpty(d) THEN [dir |-> d, res |-> "ok", acts |-> <<>>]
    ELSE IF ~vinfo.ok THEN [dir |-> d, res |-> "config", acts |-> <<>>]
    ELSE LET x == Extract(vinfo.URL, d, o)
         IN  [dir  |-> x.dir,
              res  |-> IF x.err = "nil" THEN "ok" ELSE "acquire",
              acts |-> <<"extract">>]

-----------------------------------------------------------------------------
(* Dependency resolver: the compatibility layer *)

\* What can happen to patchProtonForWin32 once it starts copying:
\*   "mkdirfail":  CopyDir cannot create the destination
\*   "copyfail0":  the walk fails before the first entry is copied
\*   "copyfail":   the walk fails after some entries were copied
\*   "patchfail":  the copy is complete, reading or writing the script fails
\*   "done":       the script is rewritten
PatchOutcomes == {"mkdirfail", "copyfail0", "copyfail", "patchfail", "done"}

\* patchProtonForWin32(version): orig is proton/<version>, patched is
\* proton/<version>-win32.
patchProtonForWin32(orig, patched, po) ==
    IF DirExistsAndIsNotEmpty(patched)
    THEN [dir |-> patched, res |-> "ok", acts |-> <<>>]
    ELSE IF po = "mkdirfail"
    THEN [dir |-> patched, res |-> "io", acts |-> <<"copy">>]
    ELSE IF orig = "absent" \/ po = "copyfail0"
    THEN [dir |-> "empty", res |-> "io", acts |-> <<"copy">>]
    ELSE IF orig = "empty"
    THEN [dir |-> "empty", res |-> "io", acts |-> <<"copy">>]
    ELSE IF po \in {"copyfail", "patchfail"}
    THEN [dir |-> "partial", res |-> "io", acts |-> <<"copy">>]
    ELSE [dir |-> orig, res |-> "ok", acts |-> <<"copy">>]

\* The arguments and outside outcomes of one ensureProton call.  An outcome
\* the call cannot come to depend on is held at one value.
ProtonCalls ==
    {call : call \in
       {c \in [vinfo : ProtonInfos, pathExists : BOOLEAN, forceUpgrade : BOOLEAN,
               wineArch : WineArchs, rm : RemoveOutcomes, o : ExtractOutcomes,
               po : PatchOutcomes] :
           LET byURL == c.vinfo.ok /\ c.vinfo.Path = "" /\ c.vinfo.URL # ""
               byPath == c.vinfo.ok /\ c.vinfo.Path # ""
           IN  /\ ~byPath => c.pathExists
               /\ ~(byURL /\ c.forceUpgrade) => c.rm = "removed"
               /\ ~byURL \/ c.rm # "removed" => c.o = "done"
               /\ ~(c.wineArch = "win32" /\ (byURL \/ (byPath /\ c.pathExists)))
                     \/ c.o # "done" => c.po = "done"}}

\* The calls possible on proton/<version> in state d and its win32 copy in
\* state w: os.RemoveAll cannot fail on a missing path, and the outcome of a
\* step that is not taken is held at one value.
ProtonCallsAt(d, w) ==
    {c \in ProtonCalls :
        /\ d = "absent" => c.rm = "removed"
        /\ DirExistsAndIsNotEmpty(d) /\ ~c.forceUpgrade => c.o = "done"
        /\ DirExistsAndIsNotEmpty(w) => c.po = "done"}

\* The arguments and outside outcomes of one ensure call, likewise.
EnsureCalls ==
    {call : call \in
       {c \in [version : Versions, vinfo : DepInfos, o : ExtractOutcomes] :
           /\ c.version = "" => c.vinfo = NoInfo
           /\ ~c.vinfo.ok \/ c.vinfo.URL = "" => c.o = "done"}}

EnsureCallsAt(d) ==
    {c \in EnsureCalls : DirExistsAndIsNotEmpty(d) => c.o = "done"}

\* A local override path that is never looked at.
localPathIgnored(vinfo) == FALSE

\* vinfo.Path != "" (line 42 of ensureProton, line 363 of getProtonPath)
hasLocalPath(vinfo) == vinfo.Path # ""

\* The condition of line 51 of ensureProton, with the force flag ignored.
acquireOnlyIfMissing(d, forceUpgrade) == ~DirExistsAndIsNotEmpty(d)

\* Line 51 of ensureProton: !DirExistsAndIsNotEmpty(protonPath) || forceUpgrade
mustAcquire(d, forceUpgrade) == ~DirExistsAndIsNotEmpty(d) \/ forceUpgrade

\* Lines 36-63 of ensureProton: resolution and acquisition of proton/<version>
\* in state d.
acquireProton(d, c) ==
    IF ~c.vinfo.ok THEN [dir |-> d, res |-> "config", acts |-> <<>>]
    ELSE IF hasLocalPath(c.vinfo)
    THEN IF ~c.pathExists THEN [dir |-> d, res |-> "config", acts |-> <<>>]
         ELSE [dir |-> d, res |-> "ok", acts |-> <<>>]
    ELSE IF c.vinfo.URL = "" THEN [dir |-> d, res |-> "config", acts |-> <<>>]
    ELSE IF mustAcquire(d, c.forceUpgrade)
    THEN LET r == IF c.forceUpgrade THEN RemoveAll(d, c.rm)
                  ELSE [dir |-> d, err |-> "nil"]
             x == Extract(c.vinfo.URL, r.dir, c.o)
         IN  IF r.err # "nil"
             THEN [dir |-> r.dir, res |-> "io", acts |-> <<"remove">>]
             ELSE [dir  |-> x.dir,
                   res  |-> IF x.err = "nil" THEN "ok" ELSE "acquire",
                   acts |-> IF c.forceUpgrade THEN <<"remove", "extract">>
                            ELSE <<"extract">>]
    ELSE [dir |-> d, res |-> "ok", acts |-> <<>>]

\* ensureProton without the return of lines 37-39: a version the registry
\* does not hold is passed.
ensureProtonUnresolved(d, w, c) ==
    LET a == acquireProton(d, c)
        p == patchProtonForWin32(a.dir, w, c.po)
    IN  IF ~c.vinfo.ok
        THEN [proton |-> d, win32 |-> w, res |-> "ok", acts |-> <<>>]
        ELSE IF a.res # "ok"
        THEN [proton |-> a.dir, win32 |-> w, res |-> a.res, acts |-> a.acts]
        ELSE IF c.wineArch = "win32"
        THEN [proton |-> a.dir, win32 |-> p.dir, res |-> p.res,
              acts |-> a.acts \o p.acts]
        ELSE [proton |-> a.dir, win32 |-> w, res |-> "ok", acts |-> a.acts]

\* ensureProton(appCfg, forceUpgrade, globalCfg) on proton/<version> in state
\* d and proton/<version>-win32 in state w.
ensureProton(d, w, c) ==
    LET a == acquireProton(d, c)
        p == patchProtonForWin32(a.dir, w, c.po)
    IN  IF a.res # "ok"
        THEN [proton |-> a.dir, win32 |-> w, res |-> a.res, acts |-> a.acts]
        ELSE IF c.wineArch = "win32"
        THEN [proton |-> a.dir, win32 |-> p.dir, res |-> p.res,
              acts |-> a.acts \o p.acts]
        ELSE [proton |-> a.dir, win32 |-> w, res |-> "ok", acts |-> a.acts]

-----------------------------------------------------------------------------
(* Dependency resolver: the container runtime *)

\* The content of version.txt or of an HTTP body: <<id, nl>>, an identifier
\* followed or not by a newline.  Identifier 0 is the body of an error page,
\* 1..MaxStamp are the BUILD_ID values the server may publish.
NoStamp == <<>>
ErrPage == <<0, FALSE>>
Stamps == {<<i, nl>> : i \in 1..MaxStamp, nl \in BOOLEAN}

\* The content compared as it is, surrounding whitespace included.
KeepSpace(s) == s

\* strings.TrimSpace
TrimSpace(s) == IF s = NoStamp THEN NoStamp ELSE <<s[1], FALSE>>

\* What http.Get followed by io.ReadAll gives for BUILD_ID.txt.
Responses ==
    {[err |-> "transport", status |-> "", body |-> NoStamp],
     [err |-> "read", status |-> "200", body |-> NoStamp],
     [err |-> "nil", status |-> "404", body |-> ErrPage]}
        \cup {[err |-> "nil", status |-> "200", body |-> b] : b \in Stamps}

\* What can happen to postInstallRuntimeFixup besides the BUILD_ID request.
FixupOutcomes == {"renamefail", "shimfail", "writefail", "done"}

GeneratedFiles == {"version.txt", "yapl-shim"}

AnyResponse == CHOOSE r \in Responses : r.err = "transport"

\* The outcomes of the freshness probe and of an acquisition.  An outcome
\* that cannot matter is held at one value.
ProbeOutcomes ==
    {out : out \in
       {q \in [readable : BOOLEAN, probe : Responses] :
           ~q.readable => q.probe = AnyResponse}}

AcquireOutcomes ==
    {out : out \in
       {q \in [o : ExtractOutcomes, rm : RemoveOutcomes,
               kept : SUBSET GeneratedFiles, fx : FixupOutcomes, build : Responses] :
           /\ q.o = "done" => q.rm = "removed"
           /\ q.rm # "halfway" => q.kept = {}
           /\ q.o # "done" => q.fx = "done" /\ q.build = AnyResponse
           /\ q.fx \in {"renamefail", "shimfail"} => q.build = AnyResponse
           /\ q.build.err # "nil" => q.fx \in {"renamefail", "shimfail", "done"}}}

\* The arguments and outside outcomes of one EnsureRuntime call.
RuntimeCall(v, vi, mk, p, q) ==
    [version |-> v, vinfo |-> vi, mkdir |-> mk, readable |-> p.readable,
     probe |-> p.probe, o |-> q.o, rm |-> q.rm, kept |-> q.kept, fx |-> q.fx,
     build |-> q.build]

NoProbe == [readable |-> TRUE, probe |-> AnyResponse]
NoAcquire ==
    [o |-> "done", rm |-> "removed", kept |-> {}, fx |-> "done",
     build |-> AnyResponse]

RuntimeCalls ==
    {RuntimeCall("", NoInfo, TRUE, NoProbe, NoAcquire)}
        \cup {RuntimeCall("v", vi, TRUE, NoProbe, NoAcquire) :
                 vi \in {i \in RuntimeInfos : ~i.ok \/ i.URL = ""}}
        \cup {RuntimeCall("v", vi, FALSE, NoProbe, NoAcquire) :
                 vi \in {i \in RuntimeInfos : i.ok /\ i.URL # ""}}
        \cup {RuntimeCall("v", vi, TRUE, p, q) :
                 vi \in {i \in RuntimeInfos : i.ok /\ i.URL # ""},
                 p \in ProbeOutcomes, q \in AcquireOutcomes}

\* The calls possible on the runtime directory r: nothing is probed unless a
\* stamp is there and update checking is requested, nothing is acquired when
\* the probe cannot ask for it, and os.RemoveAll removes what it is given.
RuntimeCallsAt(r) ==
    {c \in RuntimeCalls :
        LET p == [readable |-> c.readable, probe |-> c.probe]
            q == [o |-> c.o, rm |-> c.rm, kept |-> c.kept, fx |-> c.fx,
                  build |-> c.build]
        IN  /\ r.stamp = NoStamp \/ ~c.vinfo.CheckForUpdates => p = NoProbe
            /\ r.stamp # NoStamp /\ ~c.vinfo.CheckForUpdates => q = NoAcquire
            /\ r.stamp # NoStamp /\ c.readable /\ c.probe.err # "nil"
                  => q = NoAcquire
            /\ r.stamp # NoStamp /\ c.readable /\ c.probe.err = "nil"
                  /\ c.probe.body[1] = r.stamp[1] => q = NoAcquire
            /\ c.rm = "halfway" /\ r.stamp = NoStamp
                  => "version.txt" \notin c.kept
            /\ c.rm = "halfway" /\ ~r.shim => "yapl-shim" \notin c.kept}

NoRuntime == [dir |-> "absent", stamp |-> NoStamp, shim |-> FALSE]

\* runtimeNeedsUpdate(runtimeDir, runtimeURL): the pair it returns.
runtimeNeedsUpdate(stamp, c) ==
    IF ~c.readable THEN [need |-> TRUE, err |-> "localread"]
    ELSE IF c.probe.err # "nil" THEN [need |-> FALSE, err |-> c.probe.err]
    ELSE [need |-> TrimSpace(stamp) # TrimSpace(c.probe.body), err |-> "nil"]

\* The freshness decision with check_for_updates taken as set.
updateAlwaysProbed(r, c) ==
    IF r.stamp = NoStamp THEN [need |-> TRUE, warn |-> FALSE, probed |-> FALSE]
    ELSE LET u == runtimeNeedsUpdate(r.stamp, c)
         IN  [need |-> u.need, warn |-> u.err # "nil", probed |-> c.readable]

\* Lines 37-47 of EnsureRuntime: updateNeeded and whether a warning is logged.
updateNeeded(r, c) ==
    IF r.stamp = NoStamp THEN [need |-> TRUE, warn |-> FALSE, probed |-> FALSE]
    ELSE IF c.vinfo.CheckForUpdates
    THEN LET u == runtimeNeedsUpdate(r.stamp, c)
         IN  [need |-> u.need, warn |-> u.err # "nil", probed |-> c.readable]
    ELSE [need |-> FALSE, warn |-> FALSE, probed |-> FALSE]

\* postInstallRuntimeFixup(runtimeDir, runtimeURL) on the runtime directory r.
postInstallRuntimeFixup(r, c) ==
    IF c.fx = "renamefail" THEN [rt |-> r, err |-> "io"]
    ELSE IF c.fx = "shimfail" THEN [rt |-> r, err |-> "io"]
    ELSE IF c.build.err # "nil"
    THEN [rt |-> [r EXCEPT !.shim = TRUE], err |-> c.build.err]
    ELSE IF c.fx = "writefail"
    THEN [rt |-> [r EXCEPT !.shim = TRUE], err |-> "io"]
    ELSE [rt |-> [r EXCEPT !.shim = TRUE, !.stamp = c.build.body], err |-> "nil"]

\* The runtime directory after the cleanup os.RemoveAll(runtimeDir) of line 58
\* (its error is dropped): gone, untouched, or partly removed with the
\* generated files of c.kept left behind.
cleanupRuntime(r, c) ==
    LET x == RemoveAll(r.dir, c.rm)
    IN  IF x.err = "nil" THEN NoRuntime
        ELSE IF c.rm = "denied" THEN r
        ELSE [dir   |-> x.dir,
              stamp |-> IF "version.txt" \in c.kept THEN r.stamp ELSE NoStamp,
              shim  |-> r.shim /\ "yapl-shim" \in c.kept]

\* EnsureRuntime(appCfg, globalCfg) on dependencies/runtime/<version> = r.
EnsureRuntime(r, c) ==
    IF c.version = "" THEN [rt |-> r, res |-> "ok", warn |-> FALSE, acts |-> <<>>]
    ELSE IF ~c.vinfo.ok
    THEN [rt |-> r, res |-> "config", warn |-> FALSE, acts |-> <<>>]
    ELSE IF c.vinfo.URL = ""
    THEN [rt |-> r, res |-> "config", warn |-> FALSE, acts |-> <<>>]
    ELSE IF ~c.mkdir
    THEN [rt |-> r, res |-> "io", warn |-> FALSE, acts |-> <<"mkdir">>]
    ELSE
    LET r1 == [r EXCEPT !.dir = IF r.dir = "absent" THEN "empty" ELSE r.dir]
        u  == updateNeeded(r1, c)
        pa == IF u.probed THEN <<"mkdir", "probe">> ELSE <<"mkdir">>
        x  == Extract(c.vinfo.URL, r1.dir, c.o)
        r2 == [r1 EXCEPT !.dir = x.dir]
        f  == postInstallRuntimeFixup(r2, c)
    IN  IF ~u.need
        THEN [rt |-> r1, res |-> "ok", warn |-> u.warn, acts |-> pa]
        ELSE IF x.err # "nil"
        THEN [rt |-> cleanupRuntime(r2, c), res |-> "acquire", warn |-> u.warn,
              acts |-> pa \o <<"extract", "remove">>]
        ELSE IF f.err # "nil"
        THEN [rt |-> f.rt, res |-> "fixup", warn |-> u.warn,
              acts |-> pa \o <<"extract", "fixup">>]
        ELSE [rt |-> f.rt, res |-> "ok", warn |-> u.warn,
              acts |-> pa \o <<"extract", "fixup">>]

-----------------------------------------------------------------------------
(* Application configuration and the outside world of one command *)

LaunchMethods == {"", "direct", "container", "umu", "other"}
SteamAppIDs == {"", "0", "480"}

\* The launch settings of an application.  EnvironmentVars and DLLOverrides
\* are Go maps, here functions on the keys they hold; GameID and Store are
\* fields of UMUOptions; libs is the component list the registry gives for
\* the compatibility layer (LDLibraryPathComponents and
\* WineDllPathComponents of its VersionInfo, taken to be the same list);
\* DebugMode is App.DebugMode, which the commands pass as the debug argument.
UserKeys == {"WINEDEBUG", "WINEDLLOVERRIDES"}
EnvMaps == UNION {[S -> {"warn"}] : S \in SUBSET UserKeys}

\* The DLL override maps: the entries of {"d3d9": "n,b", "dxgi": "n"} that
\* an application sets.
DllNames == {"d3d9", "dxgi"}
DllSetting(dll) == IF dll = "d3d9" THEN "n,b" ELSE "n"
DllMaps == {[dll \in S |-> DllSetting(dll)] : S \in SUBSET DllNames}

LaunchSettings ==
    [EnvironmentVars : EnvMaps, DLLOverrides : DllMaps, GameID : {"", "g"},
     Store : {"", "s"}, libs : {<<"lib">>}, DebugMode : BOOLEAN]

NoSettings ==
    [EnvironmentVars |-> [k \in {} |-> "warn"],
     DLLOverrides |-> [k \in {} |-> "n"], GameID |-> "", Store |-> "",
     libs |-> <<>>, DebugMode |-> FALSE]

\* config.App together with the registry entries its versions resolve to:
\* proton is globalCfg.ProtonVersions[ProtonVersion], umuInfo is
\* globalCfg.DependencyVersions["umu-launcher"][UMUOptions.Version].
\* The names of compatibility-layer versions: "system" is the one name the
\* code treats specially (line 71 of InitializePrefix), "v" any other.
ProtonVersions == {"v", "system"}

AppCores ==
    [ProtonVersion : ProtonVersions,
     proton : ProtonInfos, WineArch : WineArchs, LaunchMethod : LaunchMethods,
     RuntimeVersion : Versions, SteamAppID : SteamAppIDs,
     UseSystemBinary : BOOLEAN, UMUVersion : Versions, umuInfo : DepInfos]

\* The configurations with no launch settings made.
AppConfigs == {core @@ NoSettings : core \in AppCores}

\* The configurations as far as InitializePrefix and the strategies it calls
\* read them (the helper-launcher options are not read).
PrefixConfigs ==
    {app : app \in
       {a \in AppConfigs :
           /\ ~a.UseSystemBinary /\ a.UMUVersion = "" /\ a.umuInfo = NoInfo
           /\ ~a.proton.ok => a.RuntimeVersion = "" /\ a.SteamAppID = ""
           /\ ~a.proton.ok => a.ProtonVersion = "v"
           /\ a.proton.ok => (a.proton.URL = "") = (a.proton.Path # "")
           /\ a.WineArch = "win32" \/ a.LaunchMethod = "direct"
                 => a.RuntimeVersion = ""}}

\* getWineArch
getWineArch(a) == IF a.WineArch # "" THEN a.WineArch ELSE "win64"

\* getProtonPath: the directory the launch resolves for the compatibility
\* layer: "external" is the local override path, otherwise a cache directory.
getProtonPath(a) ==
    IF hasLocalPath(a.proton) THEN "external"
    ELSE IF getWineArch(a) = "win32" THEN "proton-win32"
    ELSE "proton"

\* Whether a file can be found below the directory getProtonPath names.
MayHoldFiles(dk, base) ==
    IF base = "external" THEN TRUE ELSE DirExistsAndIsNotEmpty(dk[base])

\* What the external commands and the filesystem do during one
\* InitializePrefix or launch call.
BootOutcomes == {"fail", "faildebris", "flat", "nested"}
BootFailedOutcome(b) == b \in {"fail", "faildebris"}
RestructureOutcomes ==
    {"readfail", "move1fail", "move2fail", "removefail", "symlinkfail", "done"}

\* What the execution of a built command line can depend on: exit is how
\* cmd.Run ends for the launched process ("nonzero" is any error it
\* returns), idWrite whether steam_appid.txt can be written, libFound
\* whether os.Stat finds the registry's library component below the
\* compatibility layer, hostLd whether the inherited environment sets
\* LD_LIBRARY_PATH, envOrder and dllOrder the order in which the range loops
\* visit the keys of the two maps.
Exits == {"zero", "nonzero"}

QuietExec ==
    [exit |-> "zero", idWrite |-> TRUE, libFound |-> FALSE, hostLd |-> FALSE,
     envOrder |-> <<>>, dllOrder |-> <<>>]

Worlds ==
    {core @@ QuietExec : core \in
        [mkdir : BOOLEAN, wineFound : BOOLEAN, scriptFound : BOOLEAN,
         boot : BootOutcomes, syswow : BOOLEAN, symlink : BOOLEAN,
         rs : RestructureOutcomes]}

\* The outcomes a call for a win32 prefix can depend on, and those a call for
\* a win64 prefix can: the others are held at one value.
QuietWorld ==
    [mkdir |-> TRUE, wineFound |-> FALSE, scriptFound |-> FALSE,
     boot |-> "flat", syswow |-> TRUE, symlink |-> TRUE, rs |-> "done"]
        @@ QuietExec

Win32Worlds ==
    {world : world \in
       {w \in Worlds :
           /\ ~w.scriptFound /\ w.rs = "done" /\ w.boot # "nested"
           /\ ~w.mkdir => w = [QuietWorld EXCEPT !.mkdir = FALSE]
           /\ ~w.wineFound => w.boot = "flat" /\ w.syswow /\ w.symlink
           /\ w.boot # "flat" => w.syswow /\ w.symlink
           /\ ~w.syswow => w.symlink}}

Win64Worlds ==
    {world : world \in
       {w \in Worlds :
           /\ w.syswow /\ w.symlink
           /\ ~w.mkdir => w = [QuietWorld EXCEPT !.mkdir = FALSE]
           /\ ~w.scriptFound => ~w.wineFound /\ w.boot = "flat" /\ w.rs = "done"
           /\ BootFailedOutcome(w.boot) => w.rs = "done" /\ ~w.wineFound
           /\ w.rs # "done" => ~w.wineFound}}

\* A 64-bit prefix of the version named "system": no bootstrap command is
\* run, only the launch of explorer.exe looks for files.
SystemWorlds ==
    {[QuietWorld EXCEPT !.wineFound = wf, !.scriptFound = sf] :
        wf \in BOOLEAN, sf \in BOOLEAN}
        \cup {[QuietWorld EXCEPT !.mkdir = FALSE]}

WorldsFor(a) ==
    IF getWineArch(a) = "win32" THEN Win32Worlds
    ELSE IF a.ProtonVersion = "system" THEN SystemWorlds
    ELSE Win64Worlds

\* The outcomes a call of a launch strategy can depend on.
LaunchWorlds ==
    {[QuietWorld EXCEPT !.wineFound = wf, !.scriptFound = sf] :
        wf \in BOOLEAN, sf \in BOOLEAN}

-----------------------------------------------------------------------------
(* Launch orchestrator *)

\* The test with its second half dropped.
tagNotEmpty(a) == a.SteamAppID # ""

HasAppID(a) == a.SteamAppID # "" /\ a.SteamAppID # "0"

\* A string is held as the sequence of the pieces it is put together from,
\* separators included; an environment entry NAME=value is <<NAME, value>>.

\* strings.Join keeping only its first part.
JoinFirst(parts, sep) == IF parts = <<>> THEN <<>> ELSE parts[1]

\* strings.Join(parts, sep)
RECURSIVE Join(_, _)
Join(parts, sep) ==
    IF parts = <<>> THEN <<>>
    ELSE IF Len(parts) = 1 THEN parts[1]
    ELSE parts[1] \o <<sep>> \o Join(Tail(parts), sep)

\* buildDllOverridesString(overrides); order is the order in which the range
\* loop visits the keys of the map.
buildDllOverridesString(overrides, order) ==
    IF Cardinality(DOMAIN overrides) = 0 THEN <<>>
    ELSE Join([i \in 1..Len(order) |->
                  <<order[i], "=", overrides[order[i]]>>], ";")

\* os.Environ(): the environment yapl was started in.
Environ(w) ==
    <<<<"PATH", <<"hostpath">>>>>>
        \o IF w.hostLd THEN <<<<"LD_LIBRARY_PATH", <<"hostld">>>>>> ELSE <<>>

\* buildProtonEnv(absPrefix, protonBasePath, appCfg, vinfo, debug)
buildProtonEnv(a, w) ==
    LET root   == getProtonPath(a)
        found  == IF w.libFound
                  THEN [i \in 1..Len(a.libs) |-> <<root, "/", a.libs[i]>>]
                  ELSE <<>>
        newLd  == found \o IF w.hostLd THEN <<<<"hostld">>>> ELSE <<>>
        ldPath == IF Len(newLd) > 0
                  THEN <<<<"LD_LIBRARY_PATH", Join(newLd, ":")>>>> ELSE <<>>
        dllPath == IF Len(found) > 0
                   THEN <<<<"WINEDLLPATH", Join(found, ":")>>>> ELSE <<>>
        path   == <<"PATH", Join(<<<<root, "/bin">>, <<root, "/dist/bin">>,
                                   <<"hostpath">>>>, ":")>>
        ident  == IF HasAppID(a)
                  THEN <<<<"STEAM_COMPAT_APP_ID", <<a.SteamAppID>>>>,
                         <<"SteamAppId", <<a.SteamAppID>>>>,
                         <<"SteamGameId", <<a.SteamAppID>>>>,
                         <<"UMU_ID", <<a.SteamAppID>>>>>>
                  ELSE <<<<"UMU_ID", <<"yapl-default">>>>>>
        user   == [i \in 1..Len(w.envOrder) |->
                      <<w.envOrder[i], <<a.EnvironmentVars[w.envOrder[i]]>>>>]
        overrideStr == buildDllOverridesString(a.DLLOverrides, w.dllOrder)
        dll    == IF overrideStr # <<>>
                  THEN <<<<"WINEDLLOVERRIDES", overrideStr>>>> ELSE <<>>
        dbg    == IF a.DebugMode
                  THEN <<<<"PROTON_LOG", <<"1">>>>,
                         <<"DXVK_LOG_LEVEL", <<"info">>>>>>
                  ELSE <<>>
    IN  Environ(w) \o ldPath \o dllPath
          \o <<path,
               <<"WINEARCH", <<getWineArch(a)>>>>,
               <<"WINEPREFIX", <<"prefix">>>>,
               <<"STEAM_COMPAT_DATA_PATH", <<"prefix">>>>,
               <<"STEAM_COMPAT_CLIENT_INSTALL_PATH", <<"prefix", "/", "exedir">>>>,
               <<"STEAM_COMPAT_TOOL_PATHS", <<root>>>>,
               <<"STEAM_COMPAT_MOUNTS", <<root>>>>,
               <<"STEAM_COMPAT_SHADER_PATH", <<"prefix", "/shadercache">>>>,
               <<"PROTON_VERB", <<"waitforexitandrun">>>>>>
          \o ident \o user \o dll \o dbg

\* Lines 121-128 and 161-168: steam_appid.txt is written next to the target
\* executable; a failing write is logged.
writeAppID(a, w) ==
    IF ~HasAppID(a) THEN <<>>
    ELSE IF w.idWrite THEN <<"appid">>
    ELSE <<"appidfail">>

\* executeCommand with the error of cmd.Run returned to the caller.
executeCommandStrict(w) ==
    IF w.exit = "zero" THEN [res |-> "ok", acts |-> <<"exec">>]
    ELSE [res |-> "exit", acts |-> <<"exec">>]

\* executeCommand(cmd): the error of cmd.Run is logged and nil is returned.
executeCommand(w) ==
    IF w.exit = "zero" THEN [res |-> "ok", acts |-> <<"exec">>]
    ELSE [res |-> "ok", acts |-> <<"exec", "exitlog">>]

\* The --steam flag taken for absent.
steamAccepted(isSteam) == FALSE

\* Line 104 of RunDirectly
steamRejected(isSteam) == isSteam

\* An empty runtime version taken for a selected one.
runtimeTakenForSelected(a) == FALSE

\* Line 142 of RunInContainer
noRuntimeSelected(a) == a.RuntimeVersion = ""

\* A strategy that builds its command line, writes the files pre, and
\* executes it with the environment env.
launch(strategy, pre, exe, script, env, w) ==
    LET x == executeCommand(w)
    IN  [res |-> x.res, acts |-> <<strategy>> \o pre \o x.acts,
         env |-> env, cmd |-> [exe |-> exe, script |-> script]]

\* RunDirectly(prefixPath, appCfg, globalCfg, isSteam, debug)
RunDirectly(a, isSteam, w) ==
    IF steamRejected(isSteam) THEN [res |-> "config", acts |-> <<"direct">>]
    ELSE IF ~a.proton.ok THEN [res |-> "fatal", acts |-> <<"direct">>]
    ELSE IF ~w.wineFound THEN [res |-> "nowine", acts |-> <<"direct">>]
    ELSE launch("direct", writeAppID(a, w),
                <<getProtonPath(a), "/bin/",
                  IF getWineArch(a) = "win32" THEN "wine" ELSE "wine64">>,
                <<>>, buildProtonEnv(a, w), w)

\* RunInContainer(prefixPath, appCfg, globalCfg, debug)
RunInContainer(a, w) ==
    IF noRuntimeSelected(a) THEN [res |-> "config", acts |-> <<"container">>]
    ELSE IF ~a.proton.ok THEN [res |-> "fatal", acts |-> <<"container">>]
    ELSE IF ~w.scriptFound THEN [res |-> "noscript", acts |-> <<"container">>]
    ELSE launch("container", writeAppID(a, w),
                <<"runtime", "/yapl-entry-point">>,
                <<getProtonPath(a), "/proton">>, buildProtonEnv(a, w), w)

\* The strategy taking the launcher path without looking at the version.
RunWithUMUAnyVersion(a, w) ==
    IF ~a.proton.ok THEN [res |-> "fatal", acts |-> <<"umu">>]
    ELSE launch("umu", <<>>,
                IF a.UseSystemBinary THEN <<"umu-run">>
                ELSE <<"umu-launcher", "/umu-run">>,
                <<>>, buildProtonEnv(a, w), w)

\* RunWithUMU(prefixPath, appCfg, globalCfg, debug)
RunWithUMU(a, w) ==
    IF ~a.UseSystemBinary /\ a.UMUVersion = ""
    THEN [res |-> "config", acts |-> <<"umu">>]
    ELSE IF ~a.UseSystemBinary /\ ~a.umuInfo.ok
    THEN [res |-> "config", acts |-> <<"umu">>]
    ELSE IF ~a.proton.ok THEN [res |-> "fatal", acts |-> <<"umu">>]
    ELSE launch("umu", <<>>,
                IF a.UseSystemBinary THEN <<"umu-run">>
                ELSE <<"umu-launcher", "/umu-run">>,
                <<>>,
                buildProtonEnv(a, w)
                  \o <<<<"PROTONPATH", <<getProtonPath(a)>>>>>>
                  \o (IF a.GameID # "" THEN <<<<"GAMEID", <<a.GameID>>>>>>
                      ELSE <<>>)
                  \o (IF a.Store # "" THEN <<<<"STORE", <<a.Store>>>>>>
                      ELSE <<>>),
                w)

-----------------------------------------------------------------------------
(* Environment initializer *)

\* The prefix: root is the set of bootstrap entries at the prefix root, pfx
\* what <prefix>/pfx is, inpfx the entries inside pfx when it is a directory.
Entries == {"drive_c", "system.reg"}
Sentinel == "system.reg"
ReadDirOrder == <<"drive_c", "system.reg">>

NoPrefix == [root |-> {}, pfx |-> "absent", inpfx |-> {}]

\* A command writes the entries S below <prefix>/pfx, creating it on demand;
\* through a pfx that links to "." they land at the root.
WriteNested(p, S) ==
    IF p.pfx = "symlink" THEN [p EXCEPT !.root = @ \cup S]
    ELSE [p EXCEPT !.pfx = "dir", !.inpfx = @ \cup S]

\* The prefix after the bootstrap command ran with outcome b against the
\* prefix root (winecfg) or through the proton script.
bootstrap(p, viaScript, b) ==
    LET S == IF b = "fail" THEN {}
             ELSE IF b = "faildebris" THEN Entries \ {Sentinel}
             ELSE Entries
    IN  IF S = {} THEN p
        ELSE IF viaScript /\ b # "flat" THEN WriteNested(p, S)
        ELSE [p EXCEPT !.root = @ \cup S]

\* The exit status of the bootstrap command taken for a success.
BootNeverFails(b) == FALSE

\* The test of the bootstrap command's error (lines 44 and 76).
BootFailed(b) == BootFailedOutcome(b)

\* What the call has run so far: the bootstrap command and, as a fact of the
\* outside world, whether it exited with a failure.
ranBootstrap(cmd, b) ==
    IF BootFailedOutcome(b) THEN <<cmd, "failed">> ELSE <<cmd>>

\* The sentinel test with its answer always "no".
sentinelNeverSeen(p) == FALSE

\* Lines 23-25 of InitializePrefix: os.Stat(<prefix>/system.reg) succeeds.
sentinelPresent(p) == Sentinel \in p.root

\* A normalization that reports success and moves nothing.
restructureSkipped(p, rs) == [prefix |-> p, err |-> "nil"]

\* restructureProtonPrefix(absPrefix)
restructureProtonPrefix(p, rs) ==
    LET files == SelectSeq(ReadDirOrder, LAMBDA e : e \in p.inpfx)
        n     == IF rs = "move1fail" THEN 0
                 ELSE IF rs = "move2fail" THEN 1
                 ELSE Len(files)
        moved == {files[i] : i \in 1..(IF n < Len(files) THEN n ELSE Len(files))}
        up    == [p EXCEPT !.root = @ \cup moved, !.inpfx = @ \ moved]
    IN  IF p.pfx = "absent" THEN [prefix |-> p, err |-> "nil"]
        ELSE IF rs = "readfail" THEN [prefix |-> p, err |-> "io"]
        ELSE IF p.pfx = "symlink"
        THEN IF rs = "removefail" THEN [prefix |-> p, err |-> "io"]
             ELSE IF rs = "symlinkfail"
             THEN [prefix |-> [p EXCEPT !.pfx = "absent"], err |-> "io"]
             ELSE [prefix |-> p, err |-> "nil"]
        ELSE IF n < Len(files) THEN [prefix |-> up, err |-> "io"]
        ELSE IF rs = "removefail" THEN [prefix |-> up, err |-> "io"]
        ELSE IF rs = "symlinkfail"
        THEN [prefix |-> [up EXCEPT !.pfx = "absent"], err |-> "io"]
        ELSE [prefix |-> [up EXCEPT !.pfx = "symlink"], err |-> "nil"]

\* Lines 32-66 of InitializePrefix: the win32 bootstrap against the wine binary.
initWin32(p, a, w) ==
    LET p1 == bootstrap(p, FALSE, w.boot)
        p2 == [p1 EXCEPT !.root = @ \cup {"drive_c"}]
        e  == RunDirectly(a, FALSE, w)
    IN  IF ~w.wineFound THEN [prefix |-> p, res |-> "nowine", acts |-> <<>>]
        ELSE IF BootFailed(w.boot)
        THEN [prefix |-> p1, res |-> "bootstrap", acts |-> ranBootstrap("winecfg", w.boot)]
        ELSE IF ~w.syswow
        THEN [prefix |-> p1, res |-> "io", acts |-> ranBootstrap("winecfg", w.boot)]
        ELSE IF p2.pfx # "absent" \/ ~w.symlink
        THEN [prefix |-> p2, res |-> "io", acts |-> ranBootstrap("winecfg", w.boot)]
        ELSE [prefix |-> [p2 EXCEPT !.pfx = "symlink"], res |-> e.res,
              acts |-> ranBootstrap("winecfg", w.boot) \o e.acts]

\* The 64-bit initialization done the way of the 32-bit branch.
initWin64ThroughWine(p, a, w) == initWin32(p, a, w)

\* Lines 68-98 of InitializePrefix: the bootstrap through the proton script.
initWin64(p, a, w) ==
    LET p1 == bootstrap(p, TRUE, w.boot)
        r  == restructureProtonPrefix(p1, w.rs)
        e  == IF a.LaunchMethod = "direct" THEN RunDirectly(a, FALSE, w)
              ELSE RunInContainer(a, w)
    IN  IF a.ProtonVersion = "system"
        THEN [prefix |-> p, res |-> e.res, acts |-> e.acts]
        ELSE IF ~w.scriptFound
        THEN [prefix |-> p, res |-> "noscript", acts |-> <<>>]
        ELSE IF BootFailed(w.boot)
        THEN [prefix |-> p1, res |-> "bootstrap", acts |-> ranBootstrap("proton-run", w.boot)]
        ELSE IF r.err # "nil"
        THEN [prefix |-> r.prefix, res |-> "io",
              acts |-> ranBootstrap("proton-run", w.boot) \o <<"restructure">>]
        ELSE [prefix |-> r.prefix, res |-> e.res,
              acts |-> ranBootstrap("proton-run", w.boot) \o <<"restructure">> \o e.acts]

\* InitializePrefix(prefixPath, appCfg, globalCfg, debug)
InitializePrefix(p, a, w) ==
    IF ~w.mkdir THEN [prefix |-> p, res |-> "io", acts |-> <<>>]
    ELSE IF sentinelPresent(p) THEN [prefix |-> p, res |-> "ok", acts |-> <<>>]
    ELSE IF ~a.proton.ok THEN [prefix |-> p, res |-> "fatal", acts |-> <<>>]
    ELSE IF getWineArch(a) = "win32" THEN initWin32(p, a, w)
    ELSE initWin64(p, a, w)

-----------------------------------------------------------------------------
(* Archive utility: the file system it works on *)

\* A path is the sequence of its segments below the working directory; a
\* file system maps the paths that exist to what is there.  Of a file mode
\* two permission bits are followed: "uw", the owner may write, and "gw",
\* the group may write.  The content of a regular file is a sequence of
\* bytes; a link names /t, a path outside the directories followed here,
\* where nothing exists before the link is written through.
Bits == {"uw", "gw"}
Mode0755 == {"uw"}
Data == {<<"x">>, <<"y", "y">>}
Linkname == <<"/t">>

Node(kind, mode, data) == [kind |-> kind, mode |-> mode, data |-> data]
NoFs == [p \in {} |-> Node("dir", Mode0755, <<>>)]

\* The names a directory entry may have, in the order filepath.Walk visits
\* them, and the depth and size of the trees followed.
SegOrder == <<"a", "b">>
Segs == {SegOrder[i] : i \in 1..Len(SegOrder)}
MaxDepth == 2
MaxNodes == 3

\* What the process is run with: its umask, and whether it is privileged
\* (permission checks do not apply to it).
FsWorlds == [umask : SUBSET {"gw"}, privileged : BOOLEAN]

Parent(p) == SubSeq(p, 1, Len(p) - 1)
Put(fs, p, n) == [q \in DOMAIN fs \cup {p} |-> IF q = p THEN n ELSE fs[q]]
Below(fs, p) ==
    {q \in DOMAIN fs : Len(q) > Len(p) /\ SubSeq(q, 1, Len(p)) = p}

\* Whether the process may create an entry in directory p.
MayWriteIn(fs, p, w) ==
    w.privileged \/ p \notin DOMAIN fs \/ "uw" \in fs[p].mode

\* os.MkdirAll(p, mode): nothing to do for a directory that exists, an error
\* for anything else that exists, otherwise the parents and then p are
\* created with the mode less the umask.
RECURSIVE MkdirAll(_, _, _, _)
MkdirAll(fs, p, mode, w) ==
    IF p = <<>> THEN [fs |-> fs, err |-> "nil"]
    ELSE IF p \in DOMAIN fs
    THEN [fs |-> fs, err |-> IF fs[p].kind = "dir" THEN "nil" ELSE "notdir"]
    ELSE LET up == MkdirAll(fs, Parent(p), mode, w)
         IN  IF up.err # "nil" THEN up
             ELSE IF ~MayWriteIn(up.fs, Parent(p), w)
             THEN [fs |-> up.fs, err |-> "perm"]
             ELSE [fs  |-> Put(up.fs, p, Node("dir", mode \ w.umask, <<>>)),
                   err |-> "nil"]

\* Writing data from offset 0 into a file that is not truncated.
Overwrite(old, data) == data \o SubSeq(old, Len(data) + 1, Len(old))

\* os.OpenFile(p, O_CREATE|O_RDWR, mode), io.Copy, Close.  A missing file is
\* created with the mode less the umask; a file that exists keeps its mode
\* and is written from its start; a link or a pipe passes the bytes on to
\* what lies behind it.
WriteFile(fs, p, mode, data, w) ==
    IF p \in DOMAIN fs
    THEN CASE fs[p].kind = "dir" -> [fs |-> fs, err |-> "isdir"]
           [] fs[p].kind = "reg" ->
                IF ~(w.privileged \/ "uw" \in fs[p].mode)
                THEN [fs |-> fs, err |-> "perm"]
                ELSE [fs  |-> [fs EXCEPT ![p].data = Overwrite(@, data)],
                      err |-> "nil"]
           [] OTHER -> [fs |-> fs, err |-> "nil"]
    ELSE IF ~MayWriteIn(fs, Parent(p), w) THEN [fs |-> fs, err |-> "perm"]
    ELSE [fs  |-> Put(fs, p, Node("reg", mode \ w.umask, data)),
          err |-> "nil"]

\* os.Symlink(linkname, p)
Symlink(fs, p, linkname, w) ==
    IF p \in DOMAIN fs THEN [fs |-> fs, err |-> "exist"]
    ELSE IF ~MayWriteIn(fs, Parent(p), w) THEN [fs |-> fs, err |-> "perm"]
    ELSE [fs |-> Put(fs, p, Node("symlink", Bits, linkname)), err |-> "nil"]

\* filepath.Walk(root, fn): root, then the entries of a directory in lexical
\* order, each followed by what lies below it; links are not followed.
RECURSIVE Walk(_, _), WalkEach(_, _, _)
Walk(fs, p) ==
    <<p>> \o IF fs[p].kind = "dir" THEN WalkEach(fs, p, SegOrder) ELSE <<>>

WalkEach(fs, p, names) ==
    IF names = <<>> THEN <<>>
    ELSE (IF Append(p, Head(names)) \in DOMAIN fs
          THEN Walk(fs, Append(p, Head(names))) ELSE <<>>)
           \o WalkEach(fs, p, Tail(names))

-----------------------------------------------------------------------------
(* Archive utility: extraction and packaging *)

\* A tar header with the bytes that follow it.  name is hdr.Name cut at the
\* separators (a trailing separator leaves an empty last part), data the
\* content of a regular file or the Linkname of a link.
Entry(name, type, mode, data) ==
    [name |-> name, type |-> type, mode |-> mode, data |-> data]

\* An archive file: the tar stream and the compression it was written with
\* ("none": a plain tar stream).
Blob(codec, entries) == [codec |-> codec, tar |-> entries]

\* A file name is <<base, suffix>>.
Suffixes == {".tar", ".tar.gz", ".tar.xz", ".tar.zst", ".zip"}
Formats == {"gz", "xz", "zst", "bz2"}

\* filepath.Join(destPath, relativePath): empty segments disappear.
Clean(p) == SelectSeq(p, LAMBDA s : s # "")

\* The switch with the plain reader as its default case.
readAnySuffix(blob, suffix) ==
    IF suffix \in {".tar.gz", ".tar.xz", ".tar.zst"} /\ blob.codec # "none"
    THEN [tar |-> blob.tar, err |-> "nil"]
    ELSE IF blob.codec = "none" THEN [tar |-> blob.tar, err |-> "nil"]
    ELSE [tar |-> <<>>, err |-> "corrupt"]

\* getDecompressedReader followed by the first read of the tar reader: the
\* stream is readable when it was written with the compression the suffix
\* of the file name stands for.
getDecompressedReader(blob, suffix) ==
    LET codec == CASE suffix = ".tar.gz"  -> "gz"
                   [] suffix = ".tar.xz"  -> "xz"
                   [] suffix = ".tar.zst" -> "zst"
                   [] suffix = ".tar"     -> "none"
                   [] OTHER               -> "unsupported"
    IN  IF codec = "unsupported" THEN [tar |-> <<>>, err |-> "unsupported"]
        ELSE IF blob.codec # codec THEN [tar |-> <<>>, err |-> "corrupt"]
        ELSE [tar |-> blob.tar, err |-> "nil"]

\* extractTar(r, destPath): acts lists the file-system calls made.
RECURSIVE extractTar(_, _, _, _)
extractTar(fs, entries, destPath, w) ==
    IF entries = <<>> THEN [fs |-> fs, err |-> "nil", acts |-> <<>>]
    ELSE
    LET hdr    == Head(entries)
        parts  == hdr.name
        target == Clean(destPath \o Tail(parts))
        up     == MkdirAll(fs, Parent(target), Mode0755, w)
        made   == CASE hdr.type = "dir" -> MkdirAll(up.fs, target, hdr.mode, w)
                    [] hdr.type = "reg" ->
                         WriteFile(up.fs, target, hdr.mode, hdr.data, w)
                    [] hdr.type = "symlink" ->
                         Symlink(up.fs, target, hdr.data, w)
                    [] OTHER -> [fs |-> up.fs, err |-> "nil"]
        call   == CASE hdr.type = "dir" -> <<<<"MkdirAll", target>>>>
                    [] hdr.type = "reg" -> <<<<"OpenFile", target>>>>
                    [] hdr.type = "symlink" -> <<<<"Symlink", target>>>>
                    [] OTHER -> <<>>
        rest   == extractTar(made.fs, Tail(entries), destPath, w)
    IN  IF Len(parts) <= 1 THEN extractTar(fs, Tail(entries), destPath, w)
        ELSE IF up.err # "nil"
        THEN [fs |-> up.fs, err |-> "mkdirAll",
              acts |-> <<<<"MkdirAll", Parent(target)>>>>]
        ELSE IF made.err # "nil"
        THEN [fs |-> made.fs, err |-> hdr.type,
              acts |-> <<<<"MkdirAll", Parent(target)>>>> \o call]
        ELSE [fs |-> rest.fs, err |-> rest.err,
              acts |-> <<<<"MkdirAll", Parent(target)>>>> \o call \o rest.acts]

\* (a *Archive).Extract(destPath) for a local source file.
ArchiveExtract(fl, source, destPath, w) ==
    IF source \notin DOMAIN fl.bundles
    THEN [fs |-> fl.fs, err |-> "open", acts |-> <<>>]
    ELSE LET r == getDecompressedReader(fl.bundles[source], source[2])
         IN  IF r.err # "nil" THEN [fs |-> fl.fs, err |-> r.err, acts |-> <<>>]
             ELSE extractTar(fl.fs, r.tar, destPath, w)

\* tar.FileInfoHeader, header.Name = filepath.Rel(filepath.Dir(sourceDir),
\* path), os.Readlink and the copy of a regular file's bytes.
header(fs, sourceDir, path) ==
    Entry(SubSeq(path, Len(sourceDir), Len(path)), fs[path].kind,
          fs[path].mode,
          IF fs[path].kind \in {"reg", "symlink"} THEN fs[path].data ELSE <<>>)

\* createBundle(bundleName, sourceDir, format)
createBundle(fs, sourceDir, format) ==
    LET walk == Walk(fs, sourceDir)
    IN  Blob(format, [i \in 1..Len(walk) |-> header(fs, sourceDir, walk[i])])

\* getExtensionForFormat
getExtensionForFormat(format) ==
    CASE format = "gz"  -> ".tar.gz"
      [] format = "xz"  -> ".tar.xz"
      [] format = "zst" -> ".tar.zst"
      [] OTHER          -> ""

\* Package(sourceDir, format): the bundle is written into the working
\* directory under the base name of sourceDir.
Package(fl, sourceDir, format) ==
    LET extension   == getExtensionForFormat(format)
        packageName == <<sourceDir[Len(sourceDir)], extension>>
    IN  IF sourceDir \notin DOMAIN fl.fs
        THEN [out |-> fl, res |-> "notfound", acts |-> <<>>]
        ELSE IF extension = ""
        THEN [out |-> fl, res |-> "format", acts |-> <<>>]
        ELSE [out |-> [fl EXCEPT !.bundles =
                           [n \in DOMAIN @ \cup {packageName} |->
                              IF n = packageName
                              THEN createBundle(fl.fs, sourceDir, format)
                              ELSE @[n]]],
              res |-> "ok", acts |-> <<<<"Create", packageName>>>>]

\* trimArchiveSuffix
trimArchiveSuffix(filename) ==
    IF filename[2] \in {".tar.gz", ".tar.xz", ".tar.zst"}
    THEN [name |-> filename[1], ok |-> TRUE]
    ELSE [name |-> "", ok |-> FALSE]

\* A destination that is extracted into whether it exists or not.
destinationNeverExists(fs, destPath) == FALSE

\* Line 79 of Unpackage: os.Stat(destPath) returns no error.  A link is
\* followed by os.Stat, to a path where nothing exists.
destinationExists(fs, destPath) ==
    destPath \in DOMAIN fs /\ fs[destPath].kind # "symlink"

\* The loop of Unpackage with a return at the first archive that is not
\* extracted.
RECURSIVE unpackageUntilFailure(_, _, _, _)
unpackageUntilFailure(fl, targetDir, archivePaths, w) ==
    IF archivePaths = <<>> THEN [fs |-> fl.fs, acts |-> <<>>]
    ELSE
    LET archivePath == Head(archivePaths)
        trimmed  == trimArchiveSuffix(archivePath)
        destPath == Append(targetDir, trimmed.name)
        x        == ArchiveExtract(fl, archivePath, destPath, w)
        rest     == unpackageUntilFailure([fl EXCEPT !.fs = x.fs], targetDir,
                                          Tail(archivePaths), w)
    IN  IF ~trimmed.ok
        THEN [fs |-> fl.fs, acts |-> <<<<"unrecognized", archivePath>>>>]
        ELSE IF destinationExists(fl.fs, destPath)
        THEN [fs |-> fl.fs, acts |-> <<<<"exists", archivePath>>>>]
        ELSE IF x.err # "nil"
        THEN [fs |-> x.fs, acts |-> x.acts \o <<<<"failed", archivePath>>>>]
        ELSE [fs |-> rest.fs,
              acts |-> x.acts \o <<<<"unpackaged", archivePath>>>> \o rest.acts]

\* Unpackage(targetDir, archivePaths): acts lists what was logged for each
\* archive and the file-system calls of the extractions.
RECURSIVE unpackageEach(_, _, _, _)
unpackageEach(fl, targetDir, archivePaths, w) ==
    IF archivePaths = <<>> THEN [fs |-> fl.fs, acts |-> <<>>]
    ELSE
    LET archivePath == Head(archivePaths)
        trimmed  == trimArchiveSuffix(archivePath)
        destPath == Append(targetDir, trimmed.name)
        x        == ArchiveExtract(fl, archivePath, destPath, w)
        skip     == unpackageEach(fl, targetDir, Tail(archivePaths), w)
        rest     == unpackageEach([fl EXCEPT !.fs = x.fs], targetDir,
                                  Tail(archivePaths), w)
    IN  IF ~trimmed.ok
        THEN [fs |-> skip.fs,
              acts |-> <<<<"unrecognized", archivePath>>>> \o skip.acts]
        ELSE IF destinationExists(fl.fs, destPath)
        THEN [fs |-> skip.fs,
              acts |-> <<<<"exists", archivePath>>>> \o skip.acts]
        ELSE [fs |-> rest.fs,
              acts |-> x.acts
                         \o <<<<IF x.err = "nil" THEN "unpackaged" ELSE "failed",
                                archivePath>>>>
                         \o rest.acts]

Unpackage(fl, targetDir, archivePaths, w) ==
    LET r == unpackageEach(fl, targetDir, archivePaths, w)
    IN  IF Len(archivePaths) = 0
        THEN [out |-> fl, res |-> "noarchives", acts |-> <<>>]
        ELSE [out |-> [fl EXCEPT !.fs = r.fs], res |-> "ok", acts |-> r.acts]

\* handleUnpackage: the target directory is created, then Unpackage runs.
handleUnpackage(fl, targetDir, archivePaths, w) ==
    LET made == MkdirAll(fl.fs, targetDir, Mode0755, w)
    IN  IF made.err # "nil"
        THEN [out |-> fl, res |-> "fatal", acts |-> <<>>]
        ELSE Unpackage([fl EXCEPT !.fs = made.fs], targetDir, archivePaths, w)

NoFiles == [fs |-> NoFs, bundles |-> [n \in {} |-> Blob("none", <<>>)]]

-----------------------------------------------------------------------------
(* State *)

NoResponse == [err |-> "none", status |-> "", body |-> NoStamp]

\* The record kept of a handler call: op and comp name the handler and the
\* component directory it works on, arg holds its arguments, res is "ok" or
\* the kind of error returned, acts the effects in the order they happened,
\* warn whether a warning was logged, seen and built the BUILD_ID responses
\* the freshness probe and the fixup received.  found tells what the call's
\* presence test (of the directory, of version.txt, of the sentinel) would
\* answer on the state the call started in.  tick flips with every call.
\* env and cmd are the environment block and the command line of the process
\* a launch strategy executed for the target.
NoProcess == [exe |-> <<>>, script |-> <<>>]

Call(op, comp, arg, found, r, warn, seen, built) ==
    [tick |-> ~last.tick, op |-> op, comp |-> comp, arg |-> arg,
     found |-> found, res |-> r.res, acts |-> r.acts, warn |-> warn, seen |-> seen,
     built |-> built,
     env |-> IF "env" \in DOMAIN r THEN r.env ELSE <<>>,
     cmd |-> IF "cmd" \in DOMAIN r THEN r.cmd ELSE NoProcess]

NoCall ==
    [tick |-> FALSE, op |-> "none", comp |-> "", arg |-> <<>>,
     found |-> FALSE, res |-> "ok",
     acts |-> <<>>, warn |-> FALSE, seen |-> NoResponse, built |-> NoResponse,
     env |-> <<>>, cmd |-> NoProcess]

DefaultApp ==
    [ProtonVersion |-> "v", proton |-> NoInfo, WineArch |-> "",
     LaunchMethod |-> "",
     RuntimeVersion |-> "", SteamAppID |-> "", UseSystemBinary |-> FALSE,
     UMUVersion |-> "", umuInfo |-> NoInfo] @@ NoSettings

\* The command being followed: app holds the fields of the application
\* configuration read so far (known names them; a field is given its value
\* where the code first reads it), passed the calls that returned nil, in
\* order, and ret what the command before it returned.
NoCommand ==
    [cmd |-> "none", app |-> DefaultApp, known |-> {}, passed |-> <<>>,
     ret |-> "none"]

\* EnsureAll's calls of ensure that every configuration makes, in order.
EnsureOrder == <<"dxvk", "vkd3d">>

\* One invocation inside EnsureAll: at is where it stands ("idle": not
\* started, "check": about to test the directory of component n, "extract":
\* inside Archive.Extract with nothing written yet, "writing": extractTar has
\* written entries, "done" / "failed": EnsureAll returned nil / an error), saw
\* what its presence test answered for each component.
NoInvocation ==
    [at |-> "idle", n |-> 1, saw |-> [k \in DepKinds |-> "untested"]]

NoInvocations == [i \in Invocations |-> NoInvocation]

Init ==
    /\ disk = [k \in CacheDirs |-> "absent"]
    /\ rt = NoRuntime
    /\ prefix = NoPrefix
    /\ pc = "idle"
    /\ cfg = NoCommand
    /\ runs = 0
    /\ last = NoCall
    /\ fsys = NoFiles
    /\ inv = NoInvocations

-----------------------------------------------------------------------------
(* Handler calls: the effect of one call on the filesystem and on last *)

DoEnsure(k, v, vi, o) ==
    LET r == ensure(disk[k], v, vi, o)
    IN  /\ disk' = [disk EXCEPT ![k] = r.dir]
        /\ last' = Call("ensure", k, [version |-> v, vinfo |-> vi],
                        DirExistsAndIsNotEmpty(disk[k]), r,
                        FALSE, NoResponse, NoResponse)
        /\ UNCHANGED <<rt, prefix>>

DoEnsureProton(c) ==
    LET r == ensureProton(disk["proton"], disk["proton-win32"], c)
    IN  /\ disk' = [disk EXCEPT !["proton"] = r.proton,
                                !["proton-win32"] = r.win32]
        /\ last' = Call("ensureProton", "proton",
                        [vinfo |-> c.vinfo, forceUpgrade |-> c.forceUpgrade,
                         win32 |-> c.wineArch = "win32",
                         pathExists |-> c.pathExists],
                        DirExistsAndIsNotEmpty(disk["proton"]), r, FALSE, NoResponse, NoResponse)
        /\ UNCHANGED <<rt, prefix>>

DoEnsureRuntime(c) ==
    LET r == EnsureRuntime(rt, c)
        has(e) == \E i \in 1..Len(r.acts) : r.acts[i] = e
    IN  /\ rt' = r.rt
        /\ last' = Call("EnsureRuntime", "runtime",
                        [version |-> c.version, vinfo |-> c.vinfo],
                        rt.stamp # NoStamp, r, r.warn,
                        IF has("probe") THEN c.probe ELSE NoResponse,
                        IF has("fixup") /\ c.fx \notin {"renamefail", "shimfail"}
                        THEN c.build ELSE NoResponse)
        /\ UNCHANGED <<disk, prefix>>

DoInitializePrefix(a, w) ==
    LET r == InitializePrefix(prefix, a, w)
    IN  /\ prefix' = r.prefix
        /\ last' = Call("InitializePrefix", "prefix",
                        [wineArch |-> getWineArch(a),
                         LaunchMethod |-> a.LaunchMethod,
                         ProtonVersion |-> a.ProtonVersion],
                        Sentinel \in prefix.root, r, FALSE, NoResponse, NoResponse)
        /\ UNCHANGED <<disk, rt>>

\* The outside outcomes that are possible in the current state: a file is
\* found below the compatibility-layer directory only if that directory
\* holds something, and os.MkdirAll succeeds on a prefix directory that is
\* there already.
PossibleWorlds(a) ==
    {w \in WorldsFor(a) :
        /\ (w.wineFound \/ w.scriptFound) => MayHoldFiles(disk, getProtonPath(a))
        /\ sentinelPresent(prefix) \/ ~a.proton.ok
              => w \in {QuietWorld, [QuietWorld EXCEPT !.mkdir = FALSE]}
        /\ prefix # NoPrefix => w.mkdir}

\* Whether InitializePrefix can come to launch explorer.exe, the only step
\* that reads the runtime version and the application identifier.
ReachesExplorer(a, w) ==
    /\ ~sentinelPresent(prefix) /\ a.proton.ok /\ w.mkdir
    /\ ~BootFailedOutcome(w.boot)
    /\ IF getWineArch(a) = "win32" THEN w.wineFound /\ w.syswow /\ w.symlink
       ELSE a.ProtonVersion = "system" \/ (w.scriptFound /\ w.rs = "done")

-----------------------------------------------------------------------------
(* The handlers called on their own, in any order and with any arguments *)

CallEnsure ==
    /\ pc = "idle"
    /\ \E k \in DepKinds : \E c \in EnsureCallsAt(disk[k]) :
          DoEnsure(k, c.version, c.vinfo, c.o)
    /\ UNCHANGED <<pc, cfg, runs, fsys, inv>>

CallEnsureProton ==
    /\ pc = "idle"
    /\ \E c \in ProtonCallsAt(disk["proton"], disk["proton-win32"]) :
          DoEnsureProton(c)
    /\ UNCHANGED <<pc, cfg, runs, fsys, inv>>

CallEnsureRuntime ==
    /\ pc = "idle"
    /\ \E c \in RuntimeCallsAt(rt) : DoEnsureRuntime(c)
    /\ UNCHANGED <<pc, cfg, runs, fsys, inv>>

CallInitializePrefix ==
    /\ pc = "idle"
    /\ \E a \in PrefixConfigs : \E w \in PossibleWorlds(a) :
          /\ ~ReachesExplorer(a, w) => a.RuntimeVersion = "" /\ a.SteamAppID = ""
          /\ DoInitializePrefix(a, w)
    /\ UNCHANGED <<pc, cfg, runs, fsys, inv>>

NextDeps == CallEnsureProton \/ CallEnsure
SpecDeps == Init /\ [][NextDeps]_vars

NextRuntime == CallEnsureRuntime
SpecRuntime == Init /\ [][NextRuntime]_vars

NextPrefix == CallInitializePrefix
SpecPrefix == Init /\ [][NextPrefix]_vars

-----------------------------------------------------------------------------
(* Several invocations in EnsureAll at once, on one cache root *)

\* The component invocation i is working on.
current(i) == EnsureOrder[inv[i].n]

\* ensure returned nil for the current component: EnsureAll goes on to the
\* next ensure call, or returns nil after the last one.
ensured(v) ==
    IF v.n < Len(EnsureOrder) THEN [v EXCEPT !.at = "check", !.n = v.n + 1]
    ELSE [v EXCEPT !.at = "done"]

\* An invocation enters EnsureAll; every component has a version and a
\* registry entry with a URL.
RaceStart(i) ==
    /\ inv[i].at = "idle"
    /\ inv' = [inv EXCEPT ![i].at = "check"]
    /\ UNCHANGED <<disk, rt, prefix, pc, cfg, runs, last, fsys>>

\* ensure's presence test: a directory that holds something is taken as the
\* installed component, otherwise Archive.Extract is called.
RaceCheck(i) ==
    /\ inv[i].at = "check"
    /\ LET k == current(i)
       IN  IF DirExistsAndIsNotEmpty(disk[k])
           THEN inv' = [inv EXCEPT ![i] = ensured([@ EXCEPT !.saw[k] = "present"])]
           ELSE inv' = [inv EXCEPT ![i].saw[k] = "missing", ![i].at = "extract"]
    /\ UNCHANGED <<disk, rt, prefix, pc, cfg, runs, last, fsys>>

\* Archive.Extract up to extractTar's first entries: open or
\* getDecompressedReader fail and ensure returns the error, or the first
\* entries are written into the directory.
RaceOpen(i) ==
    /\ inv[i].at = "extract"
    /\ \E o \in ExtractOutcomes :
          IF Extract("url", disk[current(i)], o).err \in {"open", "format"}
          THEN /\ inv' = [inv EXCEPT ![i].at = "failed"]
               /\ UNCHANGED disk
          ELSE /\ inv' = [inv EXCEPT ![i].at = "writing"]
               /\ disk' = [disk EXCEPT ![current(i)] =
                              IF @ = "full" THEN "full" ELSE "partial"]
    /\ UNCHANGED <<rt, prefix, pc, cfg, runs, last, fsys>>

\* extractTar comes to its end: io.EOF after the last entry, or an error
\* that leaves what has been written so far.
RaceFinish(i) ==
    /\ inv[i].at = "writing"
    /\ \E o \in {"truncated", "done"} :
          LET x == Extract("url", disk[current(i)], o)
          IN  IF x.err = "nil"
              THEN /\ inv' = [inv EXCEPT ![i] = ensured(@)]
                   /\ disk' = [disk EXCEPT ![current(i)] = x.dir]
              ELSE /\ inv' = [inv EXCEPT ![i].at = "failed"]
                   /\ UNCHANGED disk
    /\ UNCHANGED <<rt, prefix, pc, cfg, runs, last, fsys>>

NextRace ==
    \E i \in Invocations :
        RaceStart(i) \/ RaceCheck(i) \/ RaceOpen(i) \/ RaceFinish(i)

SpecRace == Init /\ [][NextRace]_vars

-----------------------------------------------------------------------------
(* yapl run and yapl setup: App.Run and App.Setup followed step by step *)

Strategies == {"RunDirectly", "RunInContainer", "RunWithUMU"}

\* Lines 84-99 of App.Run: the launch method defaults to "container" and
\* selects the strategy.
Dispatch(a, isSteam, w) ==
    LET method == IF a.LaunchMethod = "" THEN "container" ELSE a.LaunchMethod
    IN  IF method = "direct"
        THEN [op |-> "RunDirectly"] @@ RunDirectly(a, isSteam, w)
        ELSE IF method = "container"
        THEN [op |-> "RunInContainer"] @@ RunInContainer(a, w)
        ELSE IF method = "umu"
        THEN [op |-> "RunWithUMU"] @@ RunWithUMU(a, w)
        ELSE [op |-> "Run", res |-> "config", acts |-> <<>>]

\* The orders in which a range loop can visit the keys S of a map.
Perms(S) ==
    {f \in [1..Cardinality(S) -> S] :
        \A i, j \in 1..Cardinality(S) : f[i] = f[j] => i = j}

\* Whether the selected strategy can resolve the configuration it is given
\* (the tests of the --steam flag and of the runtime version aside).
BuildsCommand(a) ==
    /\ a.proton.ok
    /\ a.LaunchMethod = "umu"
          => a.UseSystemBinary \/ (a.UMUVersion # "" /\ a.umuInfo.ok)

\* The configurations the launch of a target is called with; a field the
\* selected strategy does not read is held at one value.
TargetCores ==
    {core : core \in
       {c \in AppCores :
           /\ c.ProtonVersion = "v"
           /\ c.LaunchMethod \in {"direct", "container", "umu"}
           /\ c.WineArch # "win64"
           /\ c.proton.ok => (c.proton.URL = "") = (c.proton.Path # "")
           /\ c.LaunchMethod # "container" => c.RuntimeVersion = ""
           /\ c.LaunchMethod # "umu" \/ c.UseSystemBinary \/ c.UMUVersion = ""
                 => c.umuInfo = NoInfo
           /\ c.LaunchMethod # "umu" => ~c.UseSystemBinary /\ c.UMUVersion = ""
           /\ c.UseSystemBinary => c.UMUVersion = ""
           /\ ~BuildsCommand(c) => c.SteamAppID = "" /\ c.WineArch = ""}}

TargetConfigs ==
    {app : app \in
       {a \in {c @@ s : c \in TargetCores, s \in LaunchSettings} :
           /\ ~BuildsCommand(a) => \A f \in DOMAIN NoSettings \ {"libs"} :
                                             a[f] = NoSettings[f]
           /\ a.LaunchMethod # "umu" => a.GameID = "" /\ a.Store = ""}}

\* The outcomes the execution of the command line built for a can depend on.
ExecWorlds(a, base) ==
    {[base EXCEPT !.exit = x, !.idWrite = iw, !.libFound = lf, !.hostLd = hl,
                  !.envOrder = eo, !.dllOrder = do] :
        x \in Exits,
        iw \in IF HasAppID(a) /\ a.LaunchMethod # "umu" THEN BOOLEAN ELSE {TRUE},
        lf \in IF a.libs # <<>> THEN BOOLEAN ELSE {FALSE},
        hl \in BOOLEAN,
        eo \in Perms(DOMAIN a.EnvironmentVars),
        do \in Perms(DOMAIN a.DLLOverrides)}

\* The outcomes the launch of a target can depend on, in the current state.
TargetWorlds(a) ==
    IF ~BuildsCommand(a) THEN {QuietWorld}
    ELSE IF a.LaunchMethod = "umu" THEN ExecWorlds(a, QuietWorld)
    ELSE {QuietWorld} \cup
         IF ~MayHoldFiles(disk, getProtonPath(a)) THEN {}
         ELSE IF a.LaunchMethod = "direct"
         THEN ExecWorlds(a, [QuietWorld EXCEPT !.wineFound = TRUE])
         ELSE ExecWorlds(a, [QuietWorld EXCEPT !.scriptFound = TRUE])

DoLaunch(a, isSteam, w) ==
    LET r == Dispatch(a, isSteam, w)
    IN  /\ last' = Call(r.op, "target", [app |-> a, isSteam |-> isSteam],
                        FALSE, r, FALSE, NoResponse, NoResponse)
        /\ UNCHANGED <<disk, rt, prefix>>

\* A launch strategy called for the target with the configuration the
\* command was given.
CallLaunch ==
    /\ pc = "idle" /\ cfg.cmd = "launch"
    /\ \E isSteam \in BOOLEAN, w \in TargetWorlds(cfg.app) :
          /\ isSteam => cfg.app.LaunchMethod = "direct" /\ BuildsCommand(cfg.app)
          /\ DoLaunch(cfg.app, isSteam, w)
          /\ cfg' = [NoCommand EXCEPT !.ret = last'.res]
    /\ UNCHANGED <<pc, runs, fsys, inv>>

\* The launch is called with any configuration, on an installation that has
\* the compatibility layer in its cache.
InitLaunch ==
    /\ disk = [k \in CacheDirs |->
                 IF k \in {"proton", "proton-win32"} THEN "full" ELSE "absent"]
    /\ rt = NoRuntime
    /\ prefix = NoPrefix
    /\ pc = "idle"
    /\ cfg \in {[NoCommand EXCEPT !.cmd = "launch", !.app = a] :
                   a \in TargetConfigs}
    /\ runs = 0
    /\ last = NoCall
    /\ fsys = NoFiles
    /\ inv = NoInvocations

NextLaunch == CallLaunch
SpecLaunch == InitLaunch /\ [][NextLaunch]_vars

-----------------------------------------------------------------------------
(* Archive utility: one extraction of an archive found in the working
   directory *)

\* The archives extracted: up to MaxEntries entries below the top-level
\* directory X, named X, X/ or X/<path>.
TopDir == "X"
MaxEntries == 2
RelPaths == UNION {[1..n -> Segs] : n \in 1..MaxDepth}
EntryNames ==
    {<<TopDir>>, <<TopDir, "">>} \cup {<<TopDir>> \o p : p \in RelPaths}

EntryBodies ==
    {[type |-> "reg", mode |-> {"uw"}, data |-> <<"x">>],
     [type |-> "reg", mode |-> {"uw"}, data |-> <<"y", "y">>],
     [type |-> "reg", mode |-> {"uw", "gw"}, data |-> <<"x">>],
     [type |-> "dir", mode |-> {"uw"}, data |-> <<>>],
     [type |-> "dir", mode |-> {}, data |-> <<>>],
     [type |-> "symlink", mode |-> Bits, data |-> Linkname],
     [type |-> "link", mode |-> {"uw"}, data |-> Linkname],
     [type |-> "fifo", mode |-> {"uw"}, data |-> <<>>]}

TarEntries ==
    {Entry(n, b.type, b.mode, b.data) : n \in EntryNames, b \in EntryBodies}

TarStreams == UNION {[1..n -> TarEntries] : n \in 0..MaxEntries}

\* The archive file: its suffix and the compression of its content.  A
\* stream that is never read is held at one value.
OneFile == <<Entry(<<TopDir, "a">>, "reg", {"uw"}, <<"x">>)>>
SourceFiles ==
    {f : f \in
       {s \in [suffix : Suffixes, codec : {"none", "gz", "xz", "zst"},
               tar : TarStreams] :
           getDecompressedReader(Blob(s.codec, s.tar), s.suffix).err # "nil"
              => /\ s.tar = OneFile /\ s.codec = "gz"
                 /\ s.suffix \in {".zip", ".tar.xz"}}}

\* The destination before the extraction: absent, or a directory holding a
\* longer file at one of the paths the archive may name.
ExtractDest == <<"out">>
DestStates ==
    {NoFs,
     [p \in {ExtractDest, Append(ExtractDest, "a")} |->
        IF p = ExtractDest THEN Node("dir", Mode0755, <<>>)
        ELSE Node("reg", {"uw"}, <<"y", "y">>)]}

\* The umask can matter when a stored mode has a bit it clears, privilege
\* when a stored mode withholds the owner's write permission.
ExtractWorlds(entries) ==
    {w \in FsWorlds :
        /\ w.umask # {} => \E e \in entries :
                              e.type \in {"reg", "dir"} /\ e.mode \cap w.umask # {}
        /\ w.privileged => \E e \in entries :
                              e.type \in {"reg", "dir"} /\ "uw" \notin e.mode}

DoArchiveExtract(source, destPath, w) ==
    LET r == ArchiveExtract(fsys, source, destPath, w)
    IN  /\ fsys' = [fsys EXCEPT !.fs = r.fs]
        /\ last' = Call("Extract", "archive",
                        [source |-> source, destPath |-> destPath, w |-> w],
                        destPath \in DOMAIN fsys.fs,
                        [res  |-> IF r.err = "nil" THEN "ok" ELSE r.err,
                         acts |-> r.acts],
                        FALSE, NoResponse, NoResponse)
        /\ UNCHANGED <<disk, rt, prefix>>

CallExtract ==
    /\ pc = "idle" /\ cfg.cmd = "extract"
    /\ \E source \in DOMAIN fsys.bundles :
       \E w \in ExtractWorlds({fsys.bundles[source].tar[i] :
                                 i \in 1..Len(fsys.bundles[source].tar)}) :
          /\ DoArchiveExtract(source, ExtractDest, w)
          /\ cfg' = [NoCommand EXCEPT !.ret = last'.res]
    /\ UNCHANGED <<pc, runs, inv>>

InitExtract ==
    /\ disk = [k \in CacheDirs |-> "absent"]
    /\ rt = NoRuntime
    /\ prefix = NoPrefix
    /\ pc = "idle"
    /\ cfg = [NoCommand EXCEPT !.cmd = "extract"]
    /\ runs = 0
    /\ last = NoCall
    /\ inv = NoInvocations
    /\ fsys \in {[fs |-> d,
                  bundles |-> [n \in {<<"pkg", s.suffix>>} |->
                                 Blob(s.codec, s.tar)]] :
                    d \in DestStates, s \in SourceFiles}

NextExtract == CallExtract
SpecExtract == InitExtract /\ [][NextExtract]_vars

-----------------------------------------------------------------------------
(* Archive utility: yapl package, yapl unpackage and extractions of the
   bundles they leave in the working directory *)

\* The number of archive operations followed.
MaxCalls == 2

\* The application directory that is packaged and what it may hold: up to
\* MaxNodes entries at most MaxDepth deep.
SourceDir == <<"games", "app">>
TargetDirs == {<<"games">>, <<"apps">>}

TreeShapes ==
    {S \in SUBSET RelPaths :
        /\ Cardinality(S) <= MaxNodes
        /\ \A p \in S : Len(p) > 1 => Parent(p) \in S}

TreeNodes ==
    {Node("reg", {"uw"}, <<"x">>),
     Node("reg", {"uw"}, <<"y", "y">>),
     Node("reg", {"uw", "gw"}, <<"x">>),
     Node("dir", {"uw"}, <<>>),
     Node("dir", {}, <<>>),
     Node("symlink", Bits, Linkname),
     Node("fifo", {"uw"}, <<>>)}

SourceTrees ==
    {t : t \in
       {u \in UNION {[S -> TreeNodes] : S \in TreeShapes} :
           \A p \in DOMAIN u : Len(p) > 1 => u[Parent(p)].kind = "dir"}}

\* The tree t as the content of directory root.
Planted(root, t) ==
    [q \in {SubSeq(root, 1, k) : k \in 1..Len(root)}
             \cup {root \o p : p \in DOMAIN t} |->
        IF Len(q) <= Len(root) THEN Node("dir", Mode0755, <<>>)
        ELSE t[SubSeq(q, Len(root) + 1, Len(q))]]

\* A working directory that holds a file yapl did not write: a tar stream
\* under a name with another suffix, next to an application directory with
\* one file.
ForeignFile == <<"app", ".zip">>
WithForeignFile ==
    [fs |-> Planted(SourceDir, [p \in {<<"a">>} |-> Node("reg", {"uw"}, <<"x">>)]),
     bundles |-> [n \in {ForeignFile} |-> Blob("none", OneFile)]]

\* The entries of every bundle in the working directory.
Stored(fl) ==
    UNION {{fl.bundles[n].tar[i] : i \in 1..Len(fl.bundles[n].tar)} :
             n \in DOMAIN fl.bundles}

\* The archive paths one unpackage command may be given.
ArchiveLists(fl) ==
    LET names == DOMAIN fl.bundles \cup {ForeignFile}
    IN  UNION {[1..n -> names] : n \in 0..2}

DoPackage(format) ==
    LET r == Package(fsys, SourceDir, format)
    IN  /\ fsys' = r.out
        /\ last' = Call("Package", "archive",
                        [sourceDir |-> SourceDir, format |-> format],
                        SourceDir \in DOMAIN fsys.fs, r,
                        FALSE, NoResponse, NoResponse)
        /\ UNCHANGED <<disk, rt, prefix>>

DoUnpackage(targetDir, archivePaths, w) ==
    LET r == handleUnpackage(fsys, targetDir, archivePaths, w)
    IN  /\ fsys' = r.out
        /\ last' = Call("Unpackage", "archive",
                        [targetDir |-> targetDir,
                         archivePaths |-> archivePaths, w |-> w],
                        FALSE, r, FALSE, NoResponse, NoResponse)
        /\ UNCHANGED <<disk, rt, prefix>>

CallPackage ==
    /\ pc = "idle" /\ cfg.cmd = "none" /\ runs < MaxCalls
    /\ \E format \in Formats : DoPackage(format)
    /\ runs' = runs + 1
    /\ UNCHANGED <<pc, cfg, inv>>

CallUnpackage ==
    /\ pc = "idle" /\ cfg.cmd = "none" /\ runs < MaxCalls
    /\ \E targetDir \in TargetDirs, archivePaths \in ArchiveLists(fsys),
          w \in ExtractWorlds(Stored(fsys)) :
          DoUnpackage(targetDir, archivePaths, w)
    /\ runs' = runs + 1
    /\ UNCHANGED <<pc, cfg, inv>>

CallExtractBundle ==
    /\ pc = "idle" /\ cfg.cmd = "none" /\ runs < MaxCalls
    /\ \E source \in DOMAIN fsys.bundles, w \in ExtractWorlds(Stored(fsys)) :
          DoArchiveExtract(source, ExtractDest, w)
    /\ runs' = runs + 1
    /\ UNCHANGED <<pc, cfg, inv>>

InitBundle ==
    /\ disk = [k \in CacheDirs |-> "absent"]
    /\ rt = NoRuntime
    /\ prefix = NoPrefix
    /\ pc = "idle"
    /\ cfg = NoCommand
    /\ runs = 0
    /\ last = NoCall
    /\ inv = NoInvocations
    /\ fsys \in {[NoFiles EXCEPT !.fs = Planted(SourceDir, t)] :
                   t \in SourceTrees} \cup {WithForeignFile}

NextBundle == CallPackage \/ CallUnpackage \/ CallExtractBundle
SpecBundle == InitBundle /\ [][NextBundle]_vars

\* An error that is taken for nil.
neverFailed(res) == FALSE

\* err != nil
failed(res) == res # "ok"

\* The value of a configuration field where the code reads it.
Read(f, S) == IF f \in cfg.known THEN {cfg.app[f]} ELSE S

\* return err
Return(res) ==
    /\ pc' = "idle"
    /\ cfg' = [NoCommand EXCEPT !.ret = res]

\* if err := ...; err != nil { return err }, then on to the next call.
Advance(a, read, next, name, res) ==
    IF failed(res) THEN Return(res)
    ELSE /\ pc' = next
         /\ cfg' = [cfg EXCEPT !.app = a, !.known = @ \cup read,
                               !.passed = IF res = "ok" THEN Append(@, name)
                                          ELSE @]

\* The tables of InstallCustomComponents: the DLLs of each DirectX version
\* of dxvk and those of vkd3d; another version has no entry in the map.
dxvkMap(dx) ==
    IF dx = "9" THEN <<"d3d9.dll">>
    ELSE IF dx = "10"
    THEN <<"d3d10.dll", "d3d10_1.dll", "d3d10core.dll", "d3d11.dll", "dxgi.dll">>
    ELSE IF dx = "11" THEN <<"d3d11.dll", "dxgi.dll">>
    ELSE <<>>

vkd3dList == <<"d3d12.dll", "d3d12core.dll">>

\* The loop of install with a return at the first failed copy.
RECURSIVE copyUntilFailure(_, _)
copyUntilFailure(dlls, lost) ==
    IF dlls = <<>> THEN <<>>
    ELSE IF Head(dlls) \in lost THEN <<Head(dlls), "log">>
    ELSE <<Head(dlls)>> \o copyUntilFailure(Tail(dlls), lost)

\* The loop of install, lines 120-126: fs.CopyFile is called on every file
\* of dlls in turn, and a failure is logged before the next file is taken.
\* The result holds the calls made: the file for a copy, "log" for the
\* message that follows a failed one.
RECURSIVE copyEach(_, _)
copyEach(dlls, lost) ==
    IF dlls = <<>> THEN <<>>
    ELSE <<Head(dlls)>> \o (IF Head(dlls) \in lost THEN <<"log">> ELSE <<>>)
           \o copyEach(Tail(dlls), lost)

\* install(name, version, installPath, prefixPath, dlls) on prefix p: mkdir
\* is whether <prefix>/drive_c/<installPath> can be created, lost the files
\* fs.CopyFile fails on.  acts holds the calls made, warn whether a failed
\* copy was logged.
install(p, version, installPath, dlls, w) ==
    LET calls == copyEach(dlls, w.lost)
    IN  IF installPath = "" \/ version = "" \/ dlls = <<>>
        THEN [prefix |-> p, res |-> "ok", acts |-> <<>>, warn |-> FALSE]
        ELSE IF ~w.mkdir
        THEN [prefix |-> p, res |-> "io", acts |-> <<"mkdir">>, warn |-> FALSE]
        ELSE [prefix |-> [p EXCEPT !.root = @ \cup {"drive_c"}], res |-> "ok",
              acts |-> <<"mkdir">> \o calls,
              warn |-> \E i \in 1..Len(calls) : calls[i] = "log"]

\* InstallCustomComponents(prefixPath, deps)
InstallCustomComponents(p, deps, w) ==
    LET x == install(p, deps.DXVKVersion, deps.DXVKInstallPath,
                     dxvkMap(deps.DXVKDirectXVersion), w)
        v == install(x.prefix, deps.VKD3DVersion, deps.VKD3DInstallPath,
                     vkd3dList, w)
    IN  IF x.res # "ok" THEN x
        ELSE [prefix |-> v.prefix, res |-> v.res, acts |-> x.acts \o v.acts,
              warn |-> x.warn \/ v.warn]

\* The dependency settings of an application that asks for custom DLLs, and
\* what the copies can meet.
CustomDeps ==
    [DXVKVersion : Versions, DXVKInstallPath : {"", "windows/system32"},
     DXVKDirectXVersion : {"", "9", "11"},
     VKD3DVersion : Versions, VKD3DInstallPath : {"", "windows/system32"}]

InstallWorlds ==
    [mkdir : BOOLEAN, lost : {{}, {"d3d11.dll"}, {"d3d12.dll", "d3d12core.dll"}}]

\* The files install is asked to copy for deps.
wanted(deps) ==
    LET need(version, installPath, dlls) ==
            IF installPath = "" \/ version = "" THEN {}
            ELSE {dlls[i] : i \in 1..Len(dlls)}
    IN  need(deps.DXVKVersion, deps.DXVKInstallPath,
             dxvkMap(deps.DXVKDirectXVersion))
          \cup need(deps.VKD3DVersion, deps.VKD3DInstallPath, vkd3dList)

\* The calls of InstallCustomComponents; an outcome that cannot matter is
\* held at one value.
InstallCalls ==
    {call : call \in
       {c \in [deps : CustomDeps, w : InstallWorlds] :
           /\ wanted(c.deps) = {} => c.w.mkdir
           /\ ~c.w.mkdir => c.w.lost = {}
           /\ c.w.lost # {} => c.w.lost \cap wanted(c.deps) # {}}}

DoInstallCustomComponents(deps, w) ==
    LET r == InstallCustomComponents(prefix, deps, w)
    IN  /\ prefix' = r.prefix
        /\ last' = Call("InstallCustomComponents", "prefix", deps,
                        "drive_c" \in prefix.root, r, r.warn,
                        NoResponse, NoResponse)
        /\ UNCHANGED <<disk, rt>>

\* App.Setup, line 46: the command runs the same three calls as App.Run.
StartSetup ==
    /\ pc = "idle" /\ runs < MaxRuns
    /\ pc' = "ensureProton"
    /\ runs' = runs + 1
    /\ cfg' = [NoCommand EXCEPT !.cmd = "setup"]
    /\ last' = Call("Setup", "", <<>>, FALSE, [res |-> "ok", acts |-> <<>>],
                    FALSE, NoResponse, NoResponse)
    /\ UNCHANGED <<disk, rt, prefix, fsys, inv>>

\* App.Setup, lines 56-62
StepInstallCustom ==
    /\ pc = "InstallCustomComponents"
    /\ \/ /\ \E c \in InstallCalls : DoInstallCustomComponents(c.deps, c.w)
          /\ Return(last'.res)
       \/ /\ Return("ok")
          /\ UNCHANGED <<disk, rt, prefix, last>>
    /\ UNCHANGED <<runs, fsys, inv>>

StartRun ==
    /\ pc = "idle" /\ runs < MaxRuns
    /\ pc' = "ensureProton"
    /\ runs' = runs + 1
    /\ cfg' = [NoCommand EXCEPT !.cmd = "run"]
    /\ last' = Call("Run", "", <<>>, FALSE, [res |-> "ok", acts |-> <<>>],
                    FALSE, NoResponse, NoResponse)
    /\ UNCHANGED <<disk, rt, prefix, fsys, inv>>

\* EnsureAll, line 18
StepEnsureProton ==
    /\ pc = "ensureProton"
    /\ \E c \in ProtonCallsAt(disk["proton"], disk["proton-win32"]) :
          /\ c.vinfo \in Read("proton", ProtonInfos)
          /\ c.wineArch \in Read("WineArch", WineArchs)
          /\ DoEnsureProton(c)
          /\ Advance([cfg.app EXCEPT !.proton = c.vinfo,
                                      !.WineArch = c.wineArch],
                     {"proton", "WineArch"}, "umu", "ensureProton", last'.res)
    /\ UNCHANGED <<runs, fsys, inv>>

\* EnsureAll, line 21: the helper launcher is not managed by yapl.
SkipUmu ==
    /\ pc = "umu"
    /\ \E m \in Read("LaunchMethod", LaunchMethods),
          sb \in Read("UseSystemBinary", BOOLEAN) :
          /\ m # "umu" \/ sb
          /\ m # "umu" /\ "UseSystemBinary" \notin cfg.known => ~sb
          /\ pc' = "dxvk"
          /\ cfg' = [cfg EXCEPT !.app.LaunchMethod = m,
                                !.app.UseSystemBinary = sb,
                                !.known = @ \cup
                                    IF m = "umu"
                                    THEN {"LaunchMethod", "UseSystemBinary"}
                                    ELSE {"LaunchMethod"}]
    /\ UNCHANGED <<disk, rt, prefix, last, runs, fsys, inv>>

\* EnsureAll, lines 21-25
StepEnsureUmu ==
    /\ pc = "umu"
    /\ "umu" \in Read("LaunchMethod", LaunchMethods)
    /\ FALSE \in Read("UseSystemBinary", BOOLEAN)
    /\ \E c \in EnsureCallsAt(disk["umu-launcher"]) :
          /\ c.version \in Read("UMUVersion", Versions)
          /\ c.vinfo \in Read("umuInfo", DepInfos)
          /\ DoEnsure("umu-launcher", c.version, c.vinfo, c.o)
          /\ Advance([cfg.app EXCEPT !.LaunchMethod = "umu",
                                      !.UseSystemBinary = FALSE,
                                      !.UMUVersion = c.version,
                                      !.umuInfo = c.vinfo],
                     {"LaunchMethod", "UseSystemBinary", "UMUVersion",
                      "umuInfo"},
                     "dxvk", "umu-launcher", last'.res)
    /\ UNCHANGED <<runs, fsys, inv>>

\* EnsureAll, lines 26-31: dxvk, then vkd3d
StepEnsureDep ==
    /\ pc \in {"dxvk", "vkd3d"}
    /\ \E c \in EnsureCallsAt(disk[pc]) :
          /\ DoEnsure(pc, c.version, c.vinfo, c.o)
          /\ Advance(cfg.app, {},
                     IF pc = "dxvk" THEN "vkd3d" ELSE "EnsureRuntime",
                     pc, last'.res)
    /\ UNCHANGED <<runs, fsys, inv>>

\* App.Run, line 77
StepEnsureRuntime ==
    /\ pc = "EnsureRuntime"
    /\ \E c \in RuntimeCallsAt(rt) :
          /\ c.version \in Read("RuntimeVersion", Versions)
          /\ DoEnsureRuntime(c)
          /\ Advance([cfg.app EXCEPT !.RuntimeVersion = c.version],
                     {"RuntimeVersion"}, "InitializePrefix", "EnsureRuntime",
                     last'.res)
    /\ UNCHANGED <<runs, fsys, inv>>

\* App.Run, line 80
StepInitializePrefix ==
    /\ pc = "InitializePrefix"
    /\ \E id \in Read("SteamAppID", SteamAppIDs),
          pv \in Read("ProtonVersion", ProtonVersions) :
          LET a == [cfg.app EXCEPT !.SteamAppID = id, !.ProtonVersion = pv]
          IN  \E w \in PossibleWorlds(a) :
                /\ ~ReachesExplorer(a, w) => id = cfg.app.SteamAppID
                /\ sentinelPresent(prefix) \/ ~a.proton.ok \/ ~w.mkdir
                      => pv = cfg.app.ProtonVersion
                /\ DoInitializePrefix(a, w)
                /\ Advance(a,
                           (IF ReachesExplorer(a, w) THEN {"SteamAppID"} ELSE {})
                             \cup (IF pv = cfg.app.ProtonVersion THEN {}
                                   ELSE {"ProtonVersion"}),
                           IF cfg.cmd = "setup" THEN "InstallCustomComponents"
                           ELSE "dispatch",
                           "InitializePrefix", last'.res)
    /\ UNCHANGED <<runs, fsys, inv>>

\* App.Run, lines 84-99
StepDispatch ==
    /\ pc = "dispatch"
    /\ \E id \in Read("SteamAppID", SteamAppIDs), isSteam \in BOOLEAN,
          w \in LaunchWorlds :
          LET a == [cfg.app EXCEPT !.SteamAppID = id]
              r == Dispatch(a, isSteam, w)
          IN  /\ (w.wineFound \/ w.scriptFound)
                    => MayHoldFiles(disk, getProtonPath(a))
              /\ r.op # "RunDirectly" => ~isSteam /\ ~w.wineFound
              /\ r.op # "RunInContainer" => ~w.scriptFound
              /\ r.op \in {"Run", "RunWithUMU"} => id = cfg.app.SteamAppID
              /\ last' = Call(r.op, "target",
                              [app |-> a, isSteam |-> isSteam],
                              FALSE, r, FALSE, NoResponse, NoResponse)
              /\ Return(r.res)
    /\ UNCHANGED <<disk, rt, prefix, runs, fsys, inv>>

Next ==
    \/ StartRun
    \/ StartSetup
    \/ StepEnsureProton
    \/ SkipUmu
    \/ StepEnsureUmu
    \/ StepEnsureDep
    \/ StepEnsureRuntime
    \/ StepInitializePrefix
    \/ StepDispatch
    \/ StepInstallCustom

Spec == Init /\ [][Next]_vars

-----------------------------------------------------------------------------
(* Properties of the dependency resolver *)

Did(c, e) == \E i \in 1..Len(c.acts) : c.acts[i] = e

\* The directories the resolver installs components into and tests with
\* DirExistsAndIsNotEmpty.
ComponentDirs == {"proton"} \cup DepKinds

ByURL(vi) == vi.ok /\ vi.Path = "" /\ vi.URL # ""

\* C1: every component directory that passes the presence check (exists and
\* is not empty) holds the complete content of a finished extraction.
C1_PresentIsComplete ==
    /\ \A k \in ComponentDirs : DirExistsAndIsNotEmpty(disk[k]) => disk[k] = "full"
    /\ rt.stamp # NoStamp => rt.dir = "full"

\* C2: when a call returns the error of a failed Archive.Extract, the target
\* directory of the component it was acquiring is gone.
C2_FailedExtractLeavesNoDirectory ==
    last.res = "acquire" =>
        IF last.op = "EnsureRuntime" THEN rt.dir = "absent"
        ELSE disk[last.comp] = "absent"

C4_ForceUpgradeDeletesThenExtracts ==
    [][(/\ last'.tick # last.tick /\ last'.op = "ensureProton"
        /\ last'.arg.forceUpgrade /\ ByURL(last'.arg.vinfo))
       => /\ Len(last'.acts) >= 1 /\ last'.acts[1] = "remove"
          /\ Len(last'.acts) = 1
               => last'.res = "io" /\ disk["proton"] # "absent"
          /\ Len(last'.acts) >= 2 => last'.acts[2] = "extract"
          /\ last'.res = "ok" => disk'["proton"] = "full"]_vars

C4_Witness ==
    /\ last.op = "ensureProton" /\ last.arg.forceUpgrade
    /\ ByURL(last.arg.vinfo)
    /\ last.found /\ last.acts = <<"remove", "extract">> /\ last.res = "ok"
    /\ disk["proton"] = "full"

\* C5: a call for a version the registry does not define returns a
\* configuration error and has no effect, whatever is on disk.
C5_UndefinedVersionIsConfigError ==
    (/\ last.op \in {"ensure", "ensureProton", "EnsureRuntime"}
     /\ ~last.arg.vinfo.ok
     /\ last.op # "ensureProton" => last.arg.version # "")
    => last.res = "config" /\ last.acts = <<>>


C7_FailedProbeKeepsLocalRuntime ==
    (/\ last.op = "EnsureRuntime" /\ last.found /\ Did(last, "probe")
     /\ last.seen.err # "nil" \/ last.seen.status # "200")
    => last.warn /\ last.res = "ok" /\ ~Did(last, "extract")

-----------------------------------------------------------------------------
(* Properties of the environment initializer *)

BootstrapCommands == {"winecfg", "proton-run"}

\* C8: InitializePrefix on a prefix whose system.reg is present returns
\* success having run no bootstrap command, no layout normalization and no
\* process, and leaves the prefix as it was, however often it is called.
C8_ReadyPrefixIsLeftAlone ==
    [][(/\ last'.tick # last.tick /\ last'.op = "InitializePrefix"
        /\ Sentinel \in prefix.root)
       => last'.res = "ok" /\ last'.acts = <<>> /\ prefix' = prefix]_vars

\* A call on a ready prefix that did nothing.
C8_Witness ==
    /\ last.op = "InitializePrefix" /\ last.found
    /\ last.res = "ok" /\ last.acts = <<>>
    /\ Sentinel \in prefix.root

-----------------------------------------------------------------------------
(* Properties of yapl run *)

\* The calls App.Run makes before it launches the target; EnsureAll is
\* ensureProton, dxvk and vkd3d, with umu-launcher between them when the
\* helper launcher is managed.
RunOrder == <<"ensureProton", "dxvk", "vkd3d", "EnsureRuntime", "InitializePrefix">>

\* C10: App.Run invokes a launch strategy for the target only when the calls
\* of EnsureAll, then EnsureRuntime, then InitializePrefix have each returned
\* nil, in that order; when any call returns an error, Run returns that
\* error at once, so no launch strategy is invoked after it.  (The launch
\* of explorer.exe that ends a first InitializePrefix is part of that call,
\* not a launch of the target.)
C10_LaunchOnlyAfterPreparation ==
    [][/\ (/\ cfg.cmd = "run" /\ last'.tick # last.tick
           /\ last'.op \in Strategies)
          => /\ pc = "dispatch"
             /\ SelectSeq(cfg.passed, LAMBDA n : n # "umu-launcher") = RunOrder
             /\ cfg.app.LaunchMethod = "umu" /\ ~cfg.app.UseSystemBinary
                  => cfg.passed[2] = "umu-launcher"
       /\ (/\ cfg.cmd = "run" /\ last'.tick # last.tick /\ last'.res # "ok")
          => pc' = "idle" /\ cfg'.cmd = "none" /\ cfg'.ret = last'.res
       /\ (cfg.cmd = "run" /\ pc # "dispatch" /\ last'.tick # last.tick)
          => last'.op \notin Strategies \cup {"Run"}]_vars

\* A run that went through every preparation and launched the target.
C10_Witness ==
    /\ last.op \in Strategies /\ last.comp = "target"
    /\ Did(last, "exec") /\ last.res = "ok"
    /\ pc = "idle" /\ cfg.ret = "ok"
    /\ Sentinel \in prefix.root

-----------------------------------------------------------------------------
(* Properties of the launch strategies *)

\* The call on record is a launch strategy that executed the target.
Launched == last.op \in Strategies /\ last.comp = "target" /\ Did(last, "exec")

\* Entry e of an environment block is a variable the user configured.
UserEntry(a, e) ==
    /\ e[1] \in DOMAIN a.EnvironmentVars
    /\ e[2] = <<a.EnvironmentVars[e[1]]>>

\* strings.Split(str, sep)
RECURSIVE SplitOn(_, _)
SplitOn(str, sep) ==
    IF \A i \in 1..Len(str) : str[i] # sep THEN <<str>>
    ELSE LET i == CHOOSE n \in 1..Len(str) :
                      str[n] = sep /\ \A j \in 1..(n - 1) : str[j] # sep
         IN  <<SubSeq(str, 1, i - 1)>>
                 \o SplitOn(SubSeq(str, i + 1, Len(str)), sep)

\* C11: in the environment block a launch strategy executes the target with,
\* every user-supplied environment variable is present and is followed only
\* by other user-supplied variables, so that it comes after every variable
\* the orchestrator computes (search paths, prefix descriptors, identity
\* variables, WINEDLLOVERRIDES, the debug flags, PROTONPATH, GAMEID, STORE).
C11_UserOverridesComeLast ==
    Launched
      => \A k \in DOMAIN last.arg.app.EnvironmentVars :
            \E i \in 1..Len(last.env) :
               /\ last.env[i] = <<k, <<last.arg.app.EnvironmentVars[k]>>>>
               /\ \A j \in (i + 1)..Len(last.env) :
                     UserEntry(last.arg.app, last.env[j])

\* C12: the WINEDLLOVERRIDES value a launch is executed with is made of the
\* pairs name=setting of exactly the entries of the DLL override map, each
\* once, separated by ";"; for an empty map the string is empty and the
\* orchestrator adds no WINEDLLOVERRIDES variable.
C12_DllOverridesJoined ==
    Launched
      => LET ov   == last.arg.app.DLLOverrides
             own  == {i \in 1..Len(last.env) :
                         /\ last.env[i][1] = "WINEDLLOVERRIDES"
                         /\ ~UserEntry(last.arg.app, last.env[i])}
         IN  IF DOMAIN ov = {} THEN own = {}
             ELSE /\ Cardinality(own) = 1
                  /\ \A i \in own :
                        LET parts == SplitOn(last.env[i][2], ";")
                        IN  /\ Len(parts) = Cardinality(DOMAIN ov)
                            /\ {parts[n] : n \in 1..Len(parts)}
                                 = {<<dll, "=", ov[dll]>> : dll \in DOMAIN ov}

\* A launch executed with two DLL overrides.
C12_Witness ==
    /\ Launched
    /\ Cardinality(DOMAIN last.arg.app.DLLOverrides) = 2
    /\ \E i \in 1..Len(last.env) :
          /\ last.env[i][1] = "WINEDLLOVERRIDES"
          /\ Len(last.env[i][2]) = 7

\* C13: a launch strategy that has executed the target returns nil whatever
\* the exit status of the process, and so does the command: a failing exit
\* is logged only.
C13_ExitStatusNotPropagated ==
    Launched => last.res = "ok" /\ cfg.ret = "ok"

\* The target exited with a failure.
C13_Witness ==
    /\ Launched /\ Did(last, "exitlog")
    /\ last.res = "ok" /\ cfg.ret = "ok"

\* C14: RunInContainer with no runtime version selected returns a
\* configuration error without executing a process and without writing a
\* file (the identity file included).
C14_ContainerNeedsRuntime ==
    (last.op = "RunInContainer" /\ last.arg.app.RuntimeVersion = "")
      => /\ last.res = "config"
         /\ last.acts = <<"container">>
         /\ last.env = <<>> /\ last.cmd = NoProcess

\* The container strategy refused an application that has an identity tag
\* and a compatibility layer whose script is there.
C14_Witness ==
    /\ last.op = "RunInContainer" /\ last.arg.app.RuntimeVersion = ""
    /\ last.arg.app.proton.ok /\ HasAppID(last.arg.app)
    /\ last.res = "config" /\ cfg.ret = "config"

\* C15: whichever strategy executes the target, when an application-identity
\* tag is configured the identity file is written (or the failure of that
\* write logged) before the target is executed.
C15_IdentityFileBeforeLaunch ==
    (Launched /\ HasAppID(last.arg.app))
      => \E i, j \in 1..Len(last.acts) :
            /\ i < j
            /\ last.acts[i] \in {"appid", "appidfail"}
            /\ last.acts[j] = "exec"

\* C19: RunDirectly called with the --steam flag returns an error, executes
\* no process and writes no file.
C19_DirectRejectsSteam ==
    (last.op = "RunDirectly" /\ last.arg.isSteam)
      => /\ last.res = "config"
         /\ last.acts = <<"direct">>
         /\ last.env = <<>> /\ last.cmd = NoProcess

\* The direct strategy refused --steam for an application it could have
\* launched.
C19_Witness ==
    /\ last.op = "RunDirectly" /\ last.arg.isSteam
    /\ last.arg.app.proton.ok /\ HasAppID(last.arg.app)
    /\ last.res = "config" /\ cfg.ret = "config"

\* C20: when the metadata of the compatibility-layer version names a local
\* path, ensureProton fails with a configuration error if the path does not
\* exist, never removes, downloads or extracts anything (the force flag
\* included) and leaves proton/<version> as it was; a strategy that executes
\* the target then takes that path, not proton/<version>, as the root of the
\* compatibility layer in the command line and in the environment.
LocalRoot(l) ==
    /\ \E i \in 1..Len(l.env) :
          l.env[i] = <<"STEAM_COMPAT_TOOL_PATHS", <<"external">>>>
    /\ \A i \in 1..Len(l.env) :
          l.env[i][1] \in {"STEAM_COMPAT_TOOL_PATHS", "PROTONPATH"}
             => l.env[i][2] = <<"external">>
    /\ l.op = "RunDirectly" => l.cmd.exe[1] = "external"
    /\ l.op = "RunInContainer" => l.cmd.script[1] = "external"
    /\ l.op = "RunWithUMU"
          => \E i \in 1..Len(l.env) : l.env[i] = <<"PROTONPATH", <<"external">>>>

C20_LocalPathUsedVerbatim ==
    [][/\ (/\ last'.tick # last.tick
           /\ last'.op = "ensureProton"
           /\ last'.arg.vinfo.ok
           /\ last'.arg.vinfo.Path # "")
          => /\ ~Did(last', "extract") /\ ~Did(last', "remove")
             /\ disk'["proton"] = disk["proton"]
             /\ ~last'.arg.pathExists
                   => /\ last'.res = "config" /\ last'.acts = <<>>
                      /\ disk' = disk
       /\ (/\ last'.tick # last.tick
           /\ last'.op \in Strategies
           /\ Did(last', "exec")
           /\ last'.arg.app.proton.Path # "")
          => LocalRoot(last')]_vars

\* A run of a configuration with a local path and the force flag, on a
\* machine where proton/<version> was never installed, that has executed
\* the target.
C20_Witness ==
    /\ last.op \in Strategies
    /\ Did(last, "exec")
    /\ last.arg.app.proton.Path # ""
    /\ disk["proton"] = "absent"
    /\ pc = "idle" /\ cfg.ret = "ok"

-----------------------------------------------------------------------------
(* Properties of the archive utility *)

\* An entry below the top-level directory, and the path it is extracted to.
Nested(e) == Len(e.name) > 1 /\ Clean(Tail(e.name)) # <<>>
TargetOf(e, destPath) == Clean(destPath \o Tail(e.name))

\* An archive that names a tree: no path twice, and nothing below a path
\* that is not a directory.
NamesTree(tar) ==
    \A i, j \in 1..Len(tar) :
        (i # j /\ Nested(tar[i]) /\ Nested(tar[j]))
           => LET s == Tail(tar[i].name)
                  t == Tail(tar[j].name)
              IN  /\ Clean(s) # Clean(t)
                  /\ (Len(Clean(s)) < Len(Clean(t))
                        /\ SubSeq(Clean(t), 1, Len(Clean(s))) = Clean(s))
                       => tar[i].type = "dir"

\* The archive read by the extraction recorded in l, when its file name has
\* a supported suffix and its content the matching compression.
Readable(fl, l) ==
    getDecompressedReader(fl.bundles[l.arg.source], l.arg.source[2]).err = "nil"

RelBelow(fs, root) ==
    {SubSeq(q, Len(root) + 1, Len(q)) : q \in Below(fs, root)}

\* C17: when a bundle written by Package, in any of its formats, is
\* extracted into a destination that is absent or empty, the destination
\* then holds the relative paths of the packaged directory and no others,
\* and every regular file of the directory is a regular file with the same
\* content there.
C17_PackageExtractRoundTrip ==
    [][(/\ last'.tick # last.tick /\ last'.op = "Extract"
        /\ last'.arg.source # ForeignFile
        /\ Below(fsys.fs, last'.arg.destPath) = {})
       => LET dest == last'.arg.destPath
          IN  /\ RelBelow(fsys'.fs, dest) = RelBelow(fsys.fs, SourceDir)
              /\ \A p \in RelBelow(fsys.fs, SourceDir) :
                    fsys.fs[SourceDir \o p].kind = "reg"
                       => /\ dest \o p \in DOMAIN fsys'.fs
                          /\ fsys'.fs[dest \o p].kind = "reg"
                          /\ fsys'.fs[dest \o p].data
                                = fsys.fs[SourceDir \o p].data]_vars

\* Path q is destPath or lies below it.
Within(q, destPath) ==
    Len(q) >= Len(destPath) /\ SubSeq(q, 1, Len(destPath)) = destPath

\* C18: an archive given to Unpackage whose destination
\* <targetDir>/<name without suffix> exists is skipped: the skip is logged,
\* no file-system call is made at or below the destination, everything at
\* and below it is as before, and Unpackage returns nil.
C18_ExistingDestinationSkipped ==
    [][(last'.tick # last.tick /\ last'.op = "Unpackage")
       => \A i \in 1..Len(last'.arg.archivePaths) :
             LET archivePath == last'.arg.archivePaths[i]
                 trimmed     == trimArchiveSuffix(archivePath)
                 destPath    == Append(last'.arg.targetDir, trimmed.name)
             IN  (trimmed.ok /\ destPath \in DOMAIN fsys.fs)
                    => /\ last'.res = "ok"
                       /\ Did(last', <<"exists", archivePath>>)
                       /\ ~Did(last', <<"unpackaged", archivePath>>)
                       /\ ~Did(last', <<"failed", archivePath>>)
                       /\ \A k \in 1..Len(last'.acts) :
                             last'.acts[k][1] \in {"MkdirAll", "OpenFile", "Symlink"}
                                => ~Within(last'.acts[k][2], destPath)
                       /\ \A q \in DOMAIN fsys.fs \cup DOMAIN fsys'.fs :
                             Within(q, destPath)
                                => /\ q \in DOMAIN fsys.fs
                                   /\ q \in DOMAIN fsys'.fs
                                   /\ fsys'.fs[q] = fsys.fs[q]]_vars

\* An unpackage command given the bundle of an application directory that
\* holds files: the bundle was skipped.
C18_Witness ==
    /\ last.op = "Unpackage" /\ last.res = "ok"
    /\ Len(last.arg.archivePaths) = 1
    /\ last.arg.archivePaths[1] \in DOMAIN fsys.bundles
    /\ last.acts = <<<<"exists", last.arg.archivePaths[1]>>>>
    /\ Below(fsys.fs, Append(last.arg.targetDir, last.arg.archivePaths[1][1])) # {}

-----------------------------------------------------------------------------
(* Properties of concurrent invocations *)

\* Invocation j is inside Archive.Extract for component k.
extracting(j, k) == inv[j].at \in {"extract", "writing"} /\ current(j) = k

\* C21: nothing serializes invocations that ensure the same component.  When
\* an invocation makes its presence test while another one is extracting
\* that component, the test is answered from the directory alone: on a
\* directory that holds nothing yet it goes on to extract into the same
\* directory as the other, and on a directory that holds something it takes
\* the component as installed although the other's extraction has not
\* finished.
C21_NothingSerializesEnsure ==
    [][\A i \in Invocations : \A k \in DepKinds :
              (/\ inv[i].at = "check" /\ current(i) = k /\ inv'[i] # inv[i]
               /\ \E j \in Invocations \ {i} : extracting(j, k))
              => IF disk[k] \in {"partial", "full"}
                 THEN /\ inv'[i].saw[k] = "present"
                      /\ inv'[i].at \in {"check", "done"}
                      /\ \E j \in Invocations \ {i} : extracting(j, k)'
                 ELSE /\ inv'[i].at = "extract"
                      /\ extracting(i, k)'
                      /\ \E j \in Invocations \ {i} : extracting(j, k)']_vars

\* Two invocations are extracting into the same directory while a third has
\* taken the half-written component as installed.
C21_Witness ==
    \E k \in DepKinds : \E i, j, l \in Invocations :
        /\ i # j /\ l \notin {i, j}
        /\ extracting(i, k) /\ extracting(j, k)
        /\ disk[k] = "partial"
        /\ inv[l].saw[k] = "present"

-----------------------------------------------------------------------------
(* Properties of one top-level command *)

Count(s, e) == Cardinality({i \in 1..Len(s) : s[i] = e})

\* The name under which a call is entered in cfg.passed.
StepName(c) == IF c.op = "ensure" THEN c.comp ELSE c.op

\* The component directory a resolver call has extracted into holds less
\* than a finished extraction.
Incomplete(c, dk, r) ==
    IF c.op = "EnsureRuntime" THEN r.dir # "full" ELSE dk[c.comp] # "full"

\* C22: within one Setup or Run, a call extracts its component archive at
\* most once and runs the bootstrap command at most once, and no call that
\* does either is made twice; a call whose extraction or bootstrap command
\* failed returns an error, and any call that returns an error ends the
\* command with that error, after which only a new command can act.
C22_OnceAndFailFast ==
    [][/\ (cfg.cmd \in {"run", "setup"} /\ last'.tick # last.tick) =>
            /\ Count(last'.acts, "extract") <= 1
            /\ Count(last'.acts, "winecfg") + Count(last'.acts, "proton-run") <= 1
            /\ \A i \in 1..Len(cfg.passed) : cfg.passed[i] # StepName(last')
            /\ Did(last', "extract") /\ Incomplete(last', disk', rt')
                  => last'.res # "ok"
            /\ Did(last', "failed") => last'.res # "ok"
            /\ last'.res # "ok"
                  => pc' = "idle" /\ cfg'.cmd = "none" /\ cfg'.ret = last'.res
       /\ (pc = "idle" /\ last'.tick # last.tick)
            => last'.op \in {"Run", "Setup"}]_vars

\* A command that fetched the compatibility layer, dxvk and the runtime and
\* was ended by the failing bootstrap command.
C22_Witness ==
    /\ last.op = "InitializePrefix" /\ Did(last, "failed")
    /\ pc = "idle" /\ cfg.ret = "bootstrap"
    /\ disk["proton"] = "full" /\ disk["dxvk"] = "full" /\ rt.dir = "full"

\* C23: a launch method other than direct, container or umu is rejected
\* before anything is done for the command: when App.Run returns the
\* "unknown launch_method" error, no component has been acquired, the
\* runtime has not been checked or installed and the prefix has not been
\* bootstrapped.
C23_UnknownMethodRejectedFirst ==
    (last.op = "Run" /\ last.res = "config")
        => /\ \A k \in CacheDirs : disk[k] = "absent"
           /\ rt = NoRuntime
           /\ prefix = NoPrefix

\* The strategy App.Run selects for a launch method.
Selected(m) == IF m = "" THEN "container" ELSE m

\* C24: during one Run with a recognized launch method, the first-time
\* prefix initialization included, every call that enters a launch strategy
\* enters the strategy selected by launch_method and no other.
C24_OneStrategyPerRun ==
    [][(/\ cfg.cmd = "run" /\ last'.tick # last.tick
        /\ "LaunchMethod" \in cfg.known
        /\ cfg.app.LaunchMethod \in {"", "direct", "container", "umu"})
       => \A s \in {"direct", "container", "umu"} :
             Did(last', s) => s = Selected(cfg.app.LaunchMethod)]_vars

-----------------------------------------------------------------------------
(* Properties of the destinations of the resolver's extractions *)

\* C25: whenever ensureProton, ensure or EnsureRuntime calls Archive.Extract,
\* the destination directory is absent or empty at that moment: it was so
\* when the call began, or the call has removed it first.
C25_ExtractIntoFreshDestination ==
    [][(last'.tick # last.tick /\ Did(last', "extract"))
       => IF last'.op = "EnsureRuntime" THEN rt.dir \in {"absent", "empty"}
          ELSE \/ disk[last'.comp] \in {"absent", "empty"}
               \/ last'.op = "ensureProton" /\ Did(last', "remove")]_vars

-----------------------------------------------------------------------------
(* Properties of the runtime's installation *)

\* C26: for a runtime version the registry gives a URL for, a call that
\* finds no version.txt (and can create the directory) extracts the archive
\* without probing the server first; a call that finds version.txt while the
\* registry does not ask for update checks makes no request to the server,
\* extracts nothing and leaves the runtime directory as it was, however
\* often it is made.
C26_FetchOnceThenOffline ==
    [][(/\ last'.tick # last.tick /\ last'.op = "EnsureRuntime"
        /\ last'.arg.version # "" /\ last'.arg.vinfo.ok
        /\ last'.arg.vinfo.URL # "")
       => /\ (rt.stamp = NoStamp /\ last'.acts # <<"mkdir">>)
                => /\ last'.acts[2] = "extract"
                   /\ last'.seen = NoResponse
          /\ (rt.stamp # NoStamp /\ ~last'.arg.vinfo.CheckForUpdates)
                => /\ last'.acts = <<"mkdir">>
                   /\ last'.seen = NoResponse /\ last'.built = NoResponse
                   /\ ~last'.warn
                   /\ rt' = rt]_vars

\* An installed runtime without update checking, met by a later call that
\* did nothing but find it.
C26_Witness ==
    /\ last.op = "EnsureRuntime" /\ last.found /\ last.res = "ok"
    /\ last.arg.vinfo.URL # "" /\ ~last.arg.vinfo.CheckForUpdates
    /\ last.acts = <<"mkdir">>
    /\ rt.stamp # NoStamp /\ rt.dir = "full"

-----------------------------------------------------------------------------
(* Properties of the prefix layout *)

\* C27: whenever system.reg is at the prefix root, so that InitializePrefix
\* takes the prefix as ready, <prefix>/pfx is absent or the symlink to ".";
\* no real pfx directory is left, after any sequence of calls.
C27_ReadyImpliesNormalized ==
    sentinelPresent(prefix) => prefix.pfx \in {"absent", "symlink"}

\* The normalization of the call returned nil: something ran after it.
Normalized(c) ==
    \E i \in 1..Len(c.acts) : c.acts[i] = "restructure" /\ i < Len(c.acts)

\* C28: when the bootstrap through the proton script succeeded and the
\* normalization returned nil, every entry of a nested pfx directory is at
\* the prefix root, nothing is left inside pfx and pfx is the symlink to
\* the root; when there is no pfx (the bootstrap wrote a flat layout), the
\* normalization changes nothing: pfx stays absent and the root holds what
\* it held and what the bootstrap wrote.
C28_NormalizationFlattens ==
    [][(/\ last'.tick # last.tick /\ last'.op = "InitializePrefix"
        /\ Normalized(last'))
       => /\ prefix'.inpfx = {}
          /\ prefix'.root = prefix.root \cup prefix.inpfx \cup Entries
          /\ prefix'.pfx \in {"absent", "symlink"}
          /\ prefix'.pfx = "absent" => prefix.pfx = "absent"
          /\ prefix.pfx # "absent" => prefix'.pfx = "symlink"]_vars

\* A prefix that was bootstrapped into pfx and normalized.
C28_Witness ==
    /\ last.op = "InitializePrefix" /\ Normalized(last)
    /\ Did(last, "proton-run") /\ ~last.found
    /\ prefix.pfx = "symlink" /\ prefix.root = Entries /\ prefix.inpfx = {}

-----------------------------------------------------------------------------
(* Properties of a forced upgrade *)

\* C30: after a successful ensureProton with force-upgrade that extracted
\* the archive anew, the directory the launch resolves holds content made
\* from that extraction: proton/<version> is the extraction itself, and for
\* a win32 application proton/<version>-win32 has been copied from it by
\* this call, after the extraction.
C30_UpgradeReachesLaunchDirectory ==
    (/\ last.op = "ensureProton" /\ last.arg.forceUpgrade
     /\ last.res = "ok" /\ Did(last, "extract"))
    => /\ disk["proton"] = "full"
       /\ last.arg.win32
            => /\ disk["proton-win32"] = "full"
               /\ last.acts = <<"remove", "extract", "copy">>

-----------------------------------------------------------------------------
(* The identity variables of the shared environment *)

\* The variables buildProtonEnv names after the application's identity tag.
SteamIdentityNames == {"STEAM_COMPAT_APP_ID", "SteamAppId", "SteamGameId"}
IdentityNames == SteamIdentityNames \cup {"UMU_ID"}

\* The values the environment block on record gives to the variable name.
ValuesOf(name) ==
    {last.env[i][2] : i \in {n \in 1..Len(last.env) : last.env[n][1] = name}}

\* C31 as stated: the environment a target is executed with holds an
\* application-identity variable (STEAM_COMPAT_APP_ID, SteamAppId,
\* SteamGameId, UMU_ID) only when the identity tag is configured and is not
\* "0"; with the tag empty or "0" none of them is in the block.
C31_NoIdentityWithoutTag ==
    (Launched /\ last.arg.app.SteamAppID \in {"", "0"})
      => \A name \in IdentityNames : ValuesOf(name) = {}

\* C31 amended: STEAM_COMPAT_APP_ID, SteamAppId and SteamGameId are in the
\* block only when the tag is configured and is not "0", and then each holds
\* the tag; UMU_ID is in every block, holding the tag when it is configured
\* and not "0" and the fixed name yapl-default otherwise.
C31_SteamIdentityOnlyWithTag ==
    Launched
      => LET tag == last.arg.app.SteamAppID
         IN  IF tag \in {"", "0"}
             THEN /\ \A name \in SteamIdentityNames : ValuesOf(name) = {}
                  /\ ValuesOf("UMU_ID") = {<<"yapl-default">>}
             ELSE \A name \in IdentityNames : ValuesOf(name) = {<<tag>>}

\* A target was executed for an application whose identity tag is "0".
C31_Witness ==
    /\ Launched /\ last.arg.app.SteamAppID = "0"
    /\ ValuesOf("UMU_ID") = {<<"yapl-default">>}
    /\ ValuesOf("WINEPREFIX") # {}

-----------------------------------------------------------------------------
(* Custom DLL installation *)

\* C32: when InstallCustomComponents has logged a failed DLL copy, it has
\* still called fs.CopyFile once on every DLL it was asked to install, the
\* ones after the failed one included, it has returned nil, and Setup has
\* ended without an error.
C32_DllCopiesBestEffort ==
    (last.op = "InstallCustomComponents" /\ Did(last, "log"))
      => /\ \A f \in wanted(last.arg) : Count(last.acts, f) = 1
         /\ last.warn /\ last.res = "ok"
         /\ pc = "idle" /\ cfg.ret = "ok"

\* Setup ended without an error after the copy of d3d11.dll failed and
\* dxgi.dll and the two vkd3d DLLs were copied.
C32_Witness ==
    /\ last.op = "InstallCustomComponents"
    /\ last.acts = <<"mkdir", "d3d11.dll", "log", "dxgi.dll",
                     "mkdir", "d3d12.dll", "d3d12core.dll">>
    /\ pc = "idle" /\ cfg.ret = "ok"

-----------------------------------------------------------------------------
(* Entry types and skipped entries of an extraction *)

\* The entry types the extraction is to reproduce.
Reproduced == {"reg", "dir", "symlink", "link"}

\* C33: after an extraction that returned nil, of an archive that names a
\* tree, every nested entry that is a regular file, a directory, a symlink
\* or a hard link is found at its stripped path, a regular file or a
\* directory with the permission bits stored in the archive; and an archive
\* with entries of other types only is extracted without an error.
C33_ReproducesEveryLinkAndFile ==
    [][(/\ last'.tick # last.tick /\ last'.op = "Extract"
        /\ Readable(fsys, last')
        /\ NamesTree(fsys.bundles[last'.arg.source].tar))
       => LET tar  == fsys.bundles[last'.arg.source].tar
              dest == last'.arg.destPath
              fs   == fsys'.fs
          IN  /\ last'.res = "ok"
                   => \A i \in 1..Len(tar) :
                        (Nested(tar[i]) /\ tar[i].type \in Reproduced)
                           => LET t == TargetOf(tar[i], dest)
                              IN  /\ t \in DOMAIN fs
                                  /\ tar[i].type \in {"reg", "dir"}
                                       => /\ fs[t].kind = tar[i].type
                                          /\ fs[t].mode = tar[i].mode
              /\ (\A i \in 1..Len(tar) : tar[i].type \notin Reproduced)
                   => last'.res = "ok"]_vars

\* C34: an entry whose name is left with an empty relative path when its
\* first segment is taken off (X, X/) is skipped: the extraction of an
\* archive made of such entries only makes no file-system call and leaves
\* the file system as it was.
C34_WrapperEntrySkipped ==
    [][(/\ last'.tick # last.tick /\ last'.op = "Extract"
        /\ Readable(fsys, last')
        /\ \A i \in 1..Len(fsys.bundles[last'.arg.source].tar) :
              ~Nested(fsys.bundles[last'.arg.source].tar[i]))
       => /\ last'.acts = <<>>
          /\ fsys'.fs = fsys.fs]_vars

-----------------------------------------------------------------------------
(* Unsupported archive names and formats *)

\* C35: Extract of a source file whose name ends in none of .tar, .tar.gz,
\* .tar.xz and .tar.zst returns the unsupported-format error, makes no
\* file-system call and leaves every file as it was; Package with a format
\* other than gz, xz and zst returns an error and has created no file.
C35_UnsupportedRejectedBeforeWriting ==
    [][(last'.tick # last.tick)
       => /\ (/\ last'.op = "Extract"
              /\ last'.arg.source[2]
                    \notin {".tar", ".tar.gz", ".tar.xz", ".tar.zst"})
               => /\ last'.res = "unsupported"
                  /\ last'.acts = <<>>
                  /\ fsys' = fsys
          /\ (/\ last'.op = "Package"
              /\ last'.arg.format \notin {"gz", "xz", "zst"})
               => /\ last'.res # "ok"
                  /\ last'.acts = <<>>
                  /\ fsys' = fsys]_vars

\* app.zip, a readable tar stream, was refused, after a first command that
\* was refused too.
C35_Witness ==
    /\ last.op = "Extract" /\ last.arg.source = ForeignFile
    /\ last.res = "unsupported"
    /\ DOMAIN fsys.bundles = {ForeignFile}
    /\ last.arg.destPath \notin DOMAIN fsys.fs
    /\ runs = MaxCalls

-----------------------------------------------------------------------------
(* The managed helper launcher *)

\* The launcher version of application a is empty or not in the registry.
NoLauncherVersion(a) == a.UMUVersion = "" \/ ~a.umuInfo.ok

\* C36: when RunWithUMU executes the umu-run of a managed launcher, the
\* launcher version is named and defined in the registry, the ensure call
\* for umu-launcher has returned nil earlier in the same command and
\* dependencies/umu-launcher/<version> is there and not empty; a run with a
\* managed launcher whose version is empty or undefined ends in an error,
\* and RunWithUMU called for it executes no process.
C36_ManagedLauncherEnsuredFirst ==
    [][/\ (last'.tick # last.tick /\ last'.op = "RunWithUMU"
             /\ ~last'.arg.app.UseSystemBinary)
         => /\ Did(last', "exec")
                 => /\ ~NoLauncherVersion(last'.arg.app)
                    /\ \E i \in 1..Len(cfg.passed) :
                          cfg.passed[i] = "umu-launcher"
                    /\ DirExistsAndIsNotEmpty(disk["umu-launcher"])
            /\ NoLauncherVersion(last'.arg.app)
                 => /\ last'.res = "config"
                    /\ ~Did(last', "exec") /\ last'.cmd = NoProcess
       /\ (/\ cfg.cmd = "run" /\ pc' = "idle"
           /\ {"LaunchMethod", "UseSystemBinary", "UMUVersion", "umuInfo"}
                 \subseteq cfg.known
           /\ cfg.app.LaunchMethod = "umu" /\ ~cfg.app.UseSystemBinary
           /\ NoLauncherVersion(cfg.app))
         => cfg'.ret \notin {"ok", "none"}]_vars

\* A run that has executed the umu-run of the managed launcher it installed.
C36_Witness ==
    /\ last.op = "RunWithUMU" /\ Did(last, "exec")
    /\ ~last.arg.app.UseSystemBinary
    /\ last.cmd.exe = <<"umu-launcher", "/umu-run">>
    /\ disk["umu-launcher"] = "full"
    /\ pc = "idle" /\ cfg.ret = "ok"

-----------------------------------------------------------------------------
(* The fatal path of getProtonInfo *)

\* The handlers of the command package that Setup and Run call.
CommandCalls == Strategies \cup {"InitializePrefix"}

\* C37: within Setup and Run no call ends in the log.Fatalf of
\* getProtonInfo: ensureProton returns a configuration error for every
\* compatibility-layer version the registry does not hold, and each call
\* into the command package is made after ensureProton has returned nil,
\* with a version the registry holds.
C37_FatalPathUnreachable ==
    [][(cfg.cmd \in {"run", "setup"} /\ last'.tick # last.tick)
       => /\ last'.res # "fatal"
          /\ (last'.op = "ensureProton" /\ ~last'.arg.vinfo.ok)
                => last'.res = "config" /\ pc' = "idle"
          /\ last'.op \in CommandCalls
                => /\ cfg.passed # <<>> /\ cfg.passed[1] = "ensureProton"
                   /\ cfg.app.proton.ok]_vars

\* A command was ended by ensureProton for a version the registry does not
\* hold.
C37_Witness ==
    /\ last.op = "ensureProton" /\ ~last.arg.vinfo.ok
    /\ last.res = "config"
    /\ pc = "idle" /\ cfg.ret = "config" /\ runs = 1
    /\ prefix = NoPrefix

-----------------------------------------------------------------------------
(* The version stamp of the container runtime *)

\* C38: whenever version.txt is present in the runtime directory, the
\* directory holds the complete content of a finished extraction and the
\* generated yapl-shim.
C38_StampWrittenLast ==
    rt.stamp # NoStamp => rt.dir = "full" /\ rt.shim

-----------------------------------------------------------------------------
(* The archives of one unpackage command *)

\* What Unpackage logs for an archive.
Reports == {"unrecognized", "exists", "failed", "unpackaged"}

\* The archives named in the log of the call on record, in its order.
Reported ==
    LET log == SelectSeq(last.acts, LAMBDA e : e[1] \in Reports)
    IN  [i \in 1..Len(log) |-> log[i][2]]

\* C40: Unpackage takes its archives in the order given and logs one outcome
\* for each of them, whatever happened to the ones before: an unrecognized
\* suffix and a failed extraction are logged and the next archive is taken;
\* Unpackage returns an error when it is given no archive path and nil in
\* every other case.
C40_EveryArchiveAttempted ==
    (last.op = "Unpackage" /\ last.res # "fatal")
      => /\ Reported = last.arg.archivePaths
         /\ last.res = IF last.arg.archivePaths = <<>> THEN "noarchives"
                       ELSE "ok"

\* Unpackage returned nil after an extraction that failed and was logged,
\* having gone on to the archive after it.
C40_Witness ==
    /\ last.op = "Unpackage" /\ last.res = "ok"
    /\ Len(last.arg.archivePaths) = 2
    /\ \E i, j \in 1..Len(last.acts) :
          /\ i < j
          /\ last.acts[i] = <<"failed", last.arg.archivePaths[1]>>
          /\ last.acts[j][1] \in Reports
          /\ last.acts[j][2] = last.arg.archivePaths[2]

-----------------------------------------------------------------------------
(* The reach of the force-upgrade flag *)

\* C39: a directory of dxvk, vkd3d or umu-launcher that exists and is not
\* empty is left as it is by every call EnsureAll makes, with and without
\* the force-upgrade flag: ensureProton does not touch it, and the ensure
\* call for it returns nil without removing or extracting anything.
C39_ForceUpgradeOnlyForProton ==
    [][\A k \in DepKinds :
          DirExistsAndIsNotEmpty(disk[k])
            => /\ disk'[k] = disk[k]
               /\ (last'.tick # last.tick /\ last'.op = "ensure"
                     /\ last'.comp = k)
                    => last'.res = "ok" /\ last'.acts = <<>>]_vars

\* A forced upgrade removed and fetched the compatibility layer again next
\* to an installed dxvk, which an ensure call had extracted before.
C39_Witness ==
    /\ last.op = "ensureProton" /\ last.arg.forceUpgrade /\ last.found
    /\ Did(last, "remove") /\ Did(last, "extract")
    /\ disk["dxvk"] = "full"

=============================================================================
